---- MODULE Spec2Model ----
(***************************************************************************)
(* Anoma embedded wallet: key hierarchy, User Key codec, confidential      *)
(* transfer (AliceBobTest), Stored-Seed wallet (EmbeddedWalletService +    *)
(* PassKeyService) and Derived-Signature wallet (DerivationWalletService). *)
(*                                                                         *)
(* All values are byte strings (sequences of 0..255) of the widths the     *)
(* code uses: 32-byte seeds / scalars / digests, 33-byte compressed        *)
(* points, 64-byte compact signatures, 12-byte IV, 16-byte GCM tag.        *)
(* The library primitives (HMAC-SHA256, SHA-256, secp256k1, AES-GCM) are   *)
(* idealised as collision-free encodings: a digest is a tag byte followed  *)
(* by the significant (non-zero) bytes of its input, zero padded to the    *)
(* digest width; a public key is the 0x02 prefix followed by the scalar.   *)
(***************************************************************************)
EXTENDS Integers, Sequences, FiniteSets, Bags, TLC

VARIABLES
  rng,            \* number of draws made from the entropy source so far
  \* --- key hierarchy and codec, applied to chosen inputs
  inSeed,         \* master seed handed to generateStaticKeys
  outStaticKeys,  \* its result
  outUserKey,     \* UserKey under test
  fromKeys,       \* outUserKey was built by createUserKey(outStaticKeys)
  outSerialized,  \* serializeUserKey(outUserKey)
  outParsed,      \* deserializeUserKey(outSerialized)
  outVerified,    \* verifyUserKey(outUserKey): "unset", "true", "false"
  outProbe,       \* a function applied to an input from outside: the call,
                  \* its argument and what it returned
  \* --- EmbeddedWalletService, PassKeyService, localStorage
  staticKeys,     \* EmbeddedWalletService.staticKeys
  userKey,        \* EmbeddedWalletService.userKey
  userEmail,      \* EmbeddedWalletService.userEmail ("" for null)
  localStorage,   \* the anoma_* entries of window.localStorage
  vaultCreds,     \* credentials the platform authenticator has issued
  calls,          \* the async calls on the wallet, each at a suspension point
  lastResult,     \* how the most recently settled wallet call ended
  vaultAuthenticated, \* history: a registration or seed retrieval succeeded
                  \* since the service was created or last logged out
  \* --- AliceBobTest component state
  now,            \* Date.now(), advanced by every handler that reads it
  bobUserKey,     \* the recipient User Key text field
  testResource,   \* resource Alice created
  discoveryMessage,
  transaction,    \* the EncryptedTransaction Alice built
  decryptedResource,
  testResults,    \* entries added by addTestResult
  bobPc,          \* "idle", or "loading" while Bob awaits loadAccount
  sentTo,         \* the User Key text the sender steps of "transaction" used
  published,      \* the ephemeral public keys of every transaction built so far
  \* --- DerivationWalletService and the external signers
  currentAdapter, \* name of DerivationWalletService.currentAdapter ("" for null)
  cachedKeys,     \* DerivationWalletService.cachedKeys
  cachedUserKey,  \* DerivationWalletService.cachedUserKey
  cachedBy,       \* the signer whose signatures cachedKeys was derived from
  cachedAddress,  \* DerivationWalletService.cachedAddress ("" for null)
  derives,        \* the async deriveStaticKeys / getUserKeyForSharing calls
  lastDerive,     \* what the latest step of a derivation call returned
  signerNonce,    \* nonces the non-deterministic signers have drawn so far
  signerDeterministic, \* per external wallet: identical message, identical signature
  derivations     \* per signer, what its most recent derivation returned

transferVars == <<now, bobUserKey, testResource, discoveryMessage, transaction,
                  decryptedResource, testResults, bobPc, sentTo, published>>

walletVars == <<staticKeys, userKey, userEmail, localStorage, vaultCreds, calls,
                lastResult, vaultAuthenticated>>

deriveVars == <<currentAdapter, cachedKeys, cachedUserKey, cachedBy,
                cachedAddress, derives,
                lastDerive, signerNonce, signerDeterministic, derivations>>

cryptoVars == <<inSeed, outStaticKeys, outUserKey, fromKeys, outSerialized,
                outParsed, outVerified, outProbe>>

\* ------------------------------------------------------------------------
\* Bounds of the model
\* ------------------------------------------------------------------------
NumAccounts == 2
NumCalls == 2
MaxRand == 10
MaxResults == 20
MaxSigns == 8

NullRec == [null |-> TRUE]

\* ------------------------------------------------------------------------
\* Byte-string helpers (Uint8Array)
\* ------------------------------------------------------------------------
Byte == 0..255

NonZero(b) == SelectSeq(b, LAMBDA x : x # 0)

Pad(s, n) == [i \in 1..n |-> IF i <= Len(s) THEN s[i] ELSE 0]

Min2(a, b) == IF a <= b THEN a ELSE b
Max2(a, b) == IF a >= b THEN a ELSE b

\* Uint8Array.prototype.slice(start, end): both ends clamp to the length
Slice(buf, start, end) ==
  LET s == Min2(Max2(start, 0), Len(buf))
      e == Min2(Max2(end, 0), Len(buf))
  IN IF e <= s THEN <<>> ELSE SubSeq(buf, s + 1, e)

RECURSIVE SumSeq(_)
SumSeq(s) == IF s = <<>> THEN 0 ELSE Head(s) + SumSeq(Tail(s))

LexLeq(a, b) ==
  LET n == Min2(Len(a), Len(b))
      d == {i \in 1..n : a[i] # b[i]}
  IN IF d = {} THEN Len(a) <= Len(b)
     ELSE LET k == CHOOSE i \in d : \A j \in d : i <= j IN a[k] < b[k]

\* ------------------------------------------------------------------------
\* Library primitives
\* ------------------------------------------------------------------------
Tag == [hmac |-> 162, sha |-> 163, sig |-> 164, dh |-> 165, mac |-> 166]

\* randomBytes(n) / crypto.getRandomValues: the r-th draw of the entropy
\* source; draws never repeat
randomBytes(n, r) == Pad(<<r>>, n)

\* hmac(sha256, key, msg)
hmac(key, msg) == Pad(<<Tag.hmac>> \o NonZero(key) \o NonZero(msg), 32)

\* sha256(msg)
sha256(msg) == Pad(<<Tag.sha>> \o NonZero(msg), 32)

\* secp256k1.getPublicKey(privateKey, true): 33 bytes, compressed
getPublicKey(privateKey) == <<2>> \o privateKey

\* secp256k1.Point.fromHex(publicKey) succeeds
IsOnCurve(publicKey) ==
  /\ Len(publicKey) = 33
  /\ publicKey[1] \in {2, 3}
  /\ NonZero(Tail(publicKey)) # <<>>

\* secp256k1.getSharedSecret(privateKey, publicKey): compressed point a*b*G
getSharedSecret(privateKey, publicKey) ==
  LET a == privateKey
      b == Tail(publicKey)
      lo == IF LexLeq(a, b) THEN a ELSE b
      hi == IF LexLeq(a, b) THEN b ELSE a
  IN <<2>> \o Pad(<<Tag.dh>> \o NonZero(lo) \o NonZero(hi), 32)

\* secp256k1.sign(messageHash, privateKey).toCompactRawBytes(): RFC 6979,
\* deterministic
sign(messageHash, privateKey) ==
  Pad(<<Tag.sig>> \o NonZero(privateKey) \o NonZero(messageHash), 64)

\* a verification that compares the first half of the signature (r) only
verifyFirstHalf(signature, messageHash, publicKey) ==
  IF Len(signature) # 64 \/ ~IsOnCurve(publicKey)
  THEN [threw |-> TRUE, valid |-> FALSE]
  ELSE [threw |-> FALSE,
        valid |-> SubSeq(signature, 1, 32)
                    = SubSeq(sign(messageHash, Tail(publicKey)), 1, 32)]

\* secp256k1.verify(signature, messageHash, publicKey): throws on inputs it
\* cannot parse, otherwise returns a boolean
verify(signature, messageHash, publicKey) ==
  IF Len(signature) # 64 \/ ~IsOnCurve(publicKey)
  THEN [threw |-> TRUE, valid |-> FALSE]
  ELSE [threw |-> FALSE,
        valid |-> signature = sign(messageHash, Tail(publicKey))]

\* ------------------------------------------------------------------------
\* cryptography.ts: key hierarchy
\* ------------------------------------------------------------------------
Ok(v) == [ok |-> TRUE, val |-> v, err |-> ""]
Err(m) == [ok |-> FALSE, val |-> NullRec, err |-> m]

\* TextEncoder().encode(label): each label is a distinct non-empty string;
\* one code byte per label
DOMAIN_IDENTITY == <<17>>
DOMAIN_NULLIFIER == <<18>>
DOMAIN_ENCRYPTION == <<19>>
DOMAIN_DISCOVERY == <<20>>
DOMAIN_NULLIFIER_COMMITMENT == <<21>>

prf(seed, domain) == hmac(seed, domain)

generateKeyPair(keyMaterial) ==
  IF Len(keyMaterial) # 32 THEN Err("Key material must be exactly 32 bytes")
  ELSE Ok([privateKey |-> keyMaterial, publicKey |-> getPublicKey(keyMaterial)])

generateNullifierKeyPair(masterSeed) ==
  LET nk == prf(masterSeed, DOMAIN_NULLIFIER)
      cnk == prf(nk, DOMAIN_NULLIFIER_COMMITMENT)
  IN [nk |-> nk, cnk |-> cnk]

generateStaticKeys(masterSeed) ==
  IF Len(masterSeed) # 32 THEN Err("Master seed must be exactly 32 bytes")
  ELSE
    LET identityMaterial == prf(masterSeed, DOMAIN_IDENTITY)
        encryptionMaterial == prf(masterSeed, DOMAIN_ENCRYPTION)
        discoveryMaterial == prf(masterSeed, DOMAIN_DISCOVERY)
        identity == generateKeyPair(identityMaterial)
        nullifier == generateNullifierKeyPair(masterSeed)
        staticEncryption == generateKeyPair(encryptionMaterial)
        staticDiscovery == generateKeyPair(discoveryMaterial)
    IN IF ~identity.ok THEN identity
       ELSE IF ~staticEncryption.ok THEN staticEncryption
       ELSE IF ~staticDiscovery.ok THEN staticDiscovery
       ELSE Ok([identity |-> identity.val,
                nullifier |-> nullifier,
                staticEncryption |-> staticEncryption.val,
                staticDiscovery |-> staticDiscovery.val])

\* the message both createUserKey and verifyUserKey hash: cnk, sdpk, sepk
createUserKey(sk) ==
  LET cnk == sk.nullifier.cnk
      messageToSign == cnk \o sk.staticDiscovery.publicKey
                           \o sk.staticEncryption.publicKey
      messageHash == sha256(messageToSign)
      signature == sign(messageHash, sk.identity.privateKey)
  IN [idpk |-> sk.identity.publicKey,
      cnk |-> cnk,
      sepk |-> sk.staticEncryption.publicKey,
      sdpk |-> sk.staticDiscovery.publicKey,
      signature |-> signature]

\* verification over the fields in the order cnk, sepk, sdpk
verifyUserKeySwapped(uk) ==
  LET messageToSign == uk.cnk \o uk.sepk \o uk.sdpk
      messageHash == sha256(messageToSign)
      r == verify(uk.signature, messageHash, uk.idpk)
  IN IF r.threw THEN FALSE ELSE r.valid

\* a catch block that answers true
verifyUserKeyCatchTrue(uk) ==
  LET messageToSign == uk.cnk \o uk.sdpk \o uk.sepk
      messageHash == sha256(messageToSign)
      r == verify(uk.signature, messageHash, uk.idpk)
  IN IF r.threw THEN TRUE ELSE r.valid

verifyUserKey(uk) ==
  LET messageToSign == uk.cnk \o uk.sdpk \o uk.sepk
      messageHash == sha256(messageToSign)
      r == verify(uk.signature, messageHash, uk.idpk)
  IN IF r.threw THEN FALSE ELSE r.valid

\* ------------------------------------------------------------------------
\* cryptography.ts: User Key codec
\* ------------------------------------------------------------------------
\* the length prefix written big-endian (setUint32 without littleEndian)
BE32(n) == <<(n \div 16777216) % 256, (n \div 65536) % 256, (n \div 256) % 256,
             n % 256>>

\* DataView.setUint32(offset, n, true)
LE32(n) == <<n % 256, (n \div 256) % 256, (n \div 65536) % 256,
             (n \div 16777216) % 256>>

\* DataView.getUint32(offset, true), offset counted from 0; a length of 2^30
\* or more exceeds every buffer, and the top byte is capped there to keep
\* the sum within the integers of the checker
getUint32(buffer, offset) ==
  buffer[offset + 1] + 256 * buffer[offset + 2] + 65536 * buffer[offset + 3]
    + 16777216 * Min2(buffer[offset + 4], 64)

\* btoa(String.fromCharCode(...buffer)): a string over the base64 alphabet,
\* characters given by their index 0..63, '=' by 64
btoa(buffer) ==
  LET n == Len(buffer)
      At(i) == IF i <= n THEN buffer[i] ELSE 0
      Ch(i) ==
        LET g == (i - 1) \div 4
            k == (i - 1) % 4
            v == At(3 * g + 1) * 65536 + At(3 * g + 2) * 256 + At(3 * g + 3)
        IN IF (k = 2 /\ 3 * g + 2 > n) \/ (k = 3 /\ 3 * g + 3 > n) THEN 64
           ELSE CASE k = 0 -> v \div 262144
                  [] k = 1 -> (v \div 4096) % 64
                  [] k = 2 -> (v \div 64) % 64
                  [] k = 3 -> v % 64
  IN [i \in 1..(4 * ((n + 2) \div 3)) |-> Ch(i)]

\* atob(serialized): forgiving-base64 decode; InvalidCharacterError on a
\* string that is not base64
atob(serialized) ==
  LET m0 == Len(serialized)
      strip == IF m0 > 0 /\ m0 % 4 = 0
               THEN IF m0 >= 2 /\ serialized[m0] = 64 /\ serialized[m0 - 1] = 64
                    THEN 2
                    ELSE IF serialized[m0] = 64 THEN 1 ELSE 0
               ELSE 0
      s == SubSeq(serialized, 1, m0 - strip)
      m == Len(s)
      At(i) == IF i <= m THEN s[i] ELSE 0
      By(j) ==
        LET g == (j - 1) \div 3
            k == (j - 1) % 3
            v == At(4 * g + 1) * 262144 + At(4 * g + 2) * 4096
                   + At(4 * g + 3) * 64 + At(4 * g + 4)
        IN CASE k = 0 -> v \div 65536
             [] k = 1 -> (v \div 256) % 256
             [] k = 2 -> v % 256
  IN IF m % 4 = 1 \/ \E i \in 1..m : s[i] \notin 0..63
     THEN Err("InvalidCharacterError")
     ELSE Ok([j \in 1..((m * 6) \div 8) |-> By(j)])

writeField(data) == LE32(Len(data)) \o data

serializeUserKey(uk) ==
  btoa(writeField(uk.idpk) \o writeField(uk.cnk)
         \o writeField(uk.sepk) \o writeField(uk.sdpk)
         \o writeField(uk.signature))

\* readField at a given offset: the field and the next offset, or the
\* RangeError of getUint32 when fewer than 4 bytes remain
readField(buffer, offset) ==
  IF offset + 4 > Len(buffer) THEN Err("RangeError")
  ELSE LET length == getUint32(buffer, offset)
       IN Ok([data |-> Slice(buffer, offset + 4, offset + 4 + length),
              offset |-> offset + 4 + length])

\* the next readField, at the offset the previous one left; a RangeError
\* thrown earlier propagates
nextField(buffer, previous) ==
  IF previous.ok THEN readField(buffer, previous.val.offset) ELSE previous

\* deserializeUserKey once atob returned the buffer
readUserKey(buffer) ==
  LET idpk == readField(buffer, 0)
      cnk == nextField(buffer, idpk)
      sepk == nextField(buffer, cnk)
      sdpk == nextField(buffer, sepk)
      signature == nextField(buffer, sdpk)
  IN IF ~signature.ok THEN Err("RangeError")
     ELSE Ok([idpk |-> idpk.val.data, cnk |-> cnk.val.data,
              sepk |-> sepk.val.data, sdpk |-> sdpk.val.data,
              signature |-> signature.val.data])

decoded(dec) == IF dec.ok THEN readUserKey(dec.val) ELSE dec

deserializeUserKey(serialized) == decoded(atob(serialized))

\* ------------------------------------------------------------------------
\* cryptography.ts: ephemeral exchange and cipher
\* ------------------------------------------------------------------------
\* an ephemeral key pair kept from the first transfer and used again
generateEphemeralEncryptionKeyPairKept(r) ==
  LET privateKey == randomBytes(32, 1)
  IN [privateKey |-> privateKey, publicKey |-> getPublicKey(privateKey)]

generateEphemeralEncryptionKeyPair(r) ==
  LET privateKey == randomBytes(32, r)
  IN [privateKey |-> privateKey, publicKey |-> getPublicKey(privateKey)]

\* a key pair whose public half is the private key itself
generateEphemeralDiscoveryKeyPairExposed(r) ==
  LET privateKey == randomBytes(32, r)
  IN [privateKey |-> privateKey, publicKey |-> privateKey]

generateEphemeralDiscoveryKeyPair(r) ==
  LET privateKey == randomBytes(32, r)
  IN [privateKey |-> privateKey, publicKey |-> getPublicKey(privateKey)]

\* a key derived from the public info alone
kdfPublicInfo(sharedSecret, info) == hmac(<<>>, info)

kdf(sharedSecret, info) == hmac(sharedSecret, info)

\* the shared point computed with the caller's own public key
diffieHellmanOwnPoint(privateKey, publicKey) ==
  IF Len(privateKey) # 32 THEN Err("Invalid private key length")
  ELSE IF Len(publicKey) # 33 THEN Err("Invalid public key length")
  ELSE IF ~IsOnCurve(publicKey) THEN Err("Point.fromHex")
  ELSE Ok(Slice(getSharedSecret(privateKey, getPublicKey(privateKey)), 1, 33))

\* the public key checked for its length only
diffieHellmanLengthOnly(privateKey, publicKey) ==
  IF Len(privateKey) # 32 THEN Err("Invalid private key length")
  ELSE IF Len(publicKey) # 33 THEN Err("Invalid public key length")
  ELSE Ok(Slice(getSharedSecret(privateKey, publicKey), 1, 33))

diffieHellman(privateKey, publicKey) ==
  IF Len(privateKey) # 32 THEN Err("Invalid private key length")
  ELSE IF Len(publicKey) # 33 THEN Err("Invalid public key length")
  ELSE IF ~IsOnCurve(publicKey) THEN Err("Point.fromHex")
  ELSE Ok(Slice(getSharedSecret(privateKey, publicKey), 1, 33))

\* crypto.subtle.encrypt / decrypt with AES-GCM: ciphertext followed by the
\* 16-byte tag; decrypt throws OperationError when the tag does not verify
gcmStream(key, iv) == (SumSeq(key) + SumSeq(iv)) % 256

gcmTag(key, iv, ct) == Pad(<<Tag.mac>> \o NonZero(key) \o NonZero(iv) \o ct, 16)

subtleEncrypt(key, iv, plaintext) ==
  LET ct == [i \in 1..Len(plaintext) |-> (plaintext[i] + gcmStream(key, iv)) % 256]
  IN ct \o gcmTag(key, iv, ct)

\* a decryption that returns the plaintext without comparing the tag
subtleDecryptUnverified(key, iv, data) ==
  IF Len(data) < 16 THEN Err("OperationError")
  ELSE LET ct == SubSeq(data, 1, Len(data) - 16)
       IN Ok([i \in 1..Len(ct) |-> (ct[i] + 256 - gcmStream(key, iv)) % 256])

subtleDecrypt(key, iv, data) ==
  IF Len(data) < 16 THEN Err("OperationError")
  ELSE LET ct == SubSeq(data, 1, Len(data) - 16)
           tag == SubSeq(data, Len(data) - 15, Len(data))
       IN IF tag # gcmTag(key, iv, ct) THEN Err("OperationError")
          ELSE Ok([i \in 1..Len(ct) |-> (ct[i] + 256 - gcmStream(key, iv)) % 256])

encrypt(key, plaintext, r) ==
  LET iv == randomBytes(12, r)
  IN iv \o subtleEncrypt(key, iv, plaintext)

decrypt(key, ciphertext) ==
  LET iv == Slice(ciphertext, 0, 12)
      encryptedData == Slice(ciphertext, 12, Len(ciphertext))
  IN subtleDecrypt(key, iv, encryptedData)

generateMasterSeed(r) == randomBytes(32, r)

\* ------------------------------------------------------------------------
\* Specification SpecCrypto: the key hierarchy builder and the User Key
\* codec applied to bounded inputs
\* ------------------------------------------------------------------------
\* the bits of a 64-byte compact signature
SignatureBits == 0..511

FieldSamples == {<<>>, <<255, 0>>, Pad(<<7>>, 260)}

NoProbe == [op |-> "none", arg |-> <<>>, out |-> NullRec]

Probed(op, arg, out) == [op |-> op, arg |-> arg, out |-> out]

CryptoIdle ==
  /\ outProbe = NoProbe
  /\ inSeed = <<>>
  /\ outStaticKeys = NullRec
  /\ outUserKey = NullRec
  /\ fromKeys = FALSE
  /\ outSerialized = <<>>
  /\ outParsed = NullRec
  /\ outVerified = "unset"

PickSeed ==
  /\ rng <= MaxRand
  /\ inSeed' = generateMasterSeed(rng)
  /\ rng' = rng + 1
  /\ outStaticKeys' = NullRec
  /\ outUserKey' = NullRec
  /\ fromKeys' = FALSE
  /\ outSerialized' = <<>>
  /\ outParsed' = NullRec
  /\ outVerified' = "unset"
  /\ outProbe' = NoProbe

ApplyGenerateStaticKeys ==
  /\ inSeed # <<>>
  /\ outStaticKeys = NullRec
  /\ generateStaticKeys(inSeed).ok
  /\ outStaticKeys' = generateStaticKeys(inSeed).val
  /\ UNCHANGED <<rng, inSeed, outUserKey, fromKeys, outSerialized, outParsed,
                 outVerified, outProbe>>

ApplyCreateUserKey ==
  /\ outStaticKeys # NullRec
  /\ outUserKey = NullRec
  /\ outUserKey' = createUserKey(outStaticKeys)
  /\ fromKeys' = TRUE
  /\ UNCHANGED <<rng, inSeed, outStaticKeys, outSerialized, outParsed,
                 outVerified, outProbe>>

PickUserKey ==
  /\ rng = 1
  /\ outUserKey = NullRec
  /\ \E a \in FieldSamples, b \in FieldSamples, c \in FieldSamples,
        d \in FieldSamples, e \in FieldSamples :
       outUserKey' = [idpk |-> a, cnk |-> b, sepk |-> c, sdpk |-> d,
                      signature |-> e]
  /\ fromKeys' = FALSE
  /\ inSeed' = <<>>
  /\ outStaticKeys' = NullRec
  /\ outSerialized' = <<>>
  /\ outParsed' = NullRec
  /\ outVerified' = "unset"
  /\ outProbe' = NoProbe
  /\ UNCHANGED rng

ApplySerialize ==
  /\ outUserKey # NullRec
  /\ outSerialized = <<>>
  /\ outSerialized' = serializeUserKey(outUserKey)
  /\ UNCHANGED <<rng, inSeed, outStaticKeys, outUserKey, fromKeys, outParsed,
                 outVerified, outProbe>>

ApplyDeserialize ==
  /\ outSerialized # <<>>
  /\ outParsed = NullRec
  /\ outParsed' = deserializeUserKey(outSerialized)
  /\ UNCHANGED <<rng, inSeed, outStaticKeys, outUserKey, fromKeys,
                 outSerialized, outVerified, outProbe>>

ApplyVerify ==
  /\ outUserKey # NullRec
  /\ outVerified = "unset"
  /\ outVerified' = IF verifyUserKey(outUserKey) THEN "true" ELSE "false"
  /\ UNCHANGED <<rng, inSeed, outStaticKeys, outUserKey, fromKeys,
                 outSerialized, outParsed, outProbe>>

\* what the probing actions leave alone
ProbeOnly ==
  UNCHANGED <<rng, inSeed, outStaticKeys, outUserKey, fromKeys, outSerialized,
              outParsed, outVerified>>

\* one bit of a byte inverted
flipBit(byte, k) ==
  IF (byte \div (2 ^ k)) % 2 = 1 THEN byte - 2 ^ k ELSE byte + 2 ^ k

\* a serialized User Key in which one bit of the signature field, the last
\* field of the buffer, is inverted; bits are counted from 0
flipSignatureBit(serialized, bit) ==
  LET buffer == atob(serialized).val
      length == Len(readUserKey(buffer).val.signature)
      at == Len(buffer) - length + (bit \div 8) + 1
  IN btoa([buffer EXCEPT ![at] = flipBit(@, bit % 8)])

\* importUserKey: deserializeUserKey, then verifyUserKey; every failure is
\* rethrown as 'Invalid User Key format or signature'
\* importUserKey without its verifyUserKey check
verifiedOrThrowUnverified(parsed) ==
  IF ~parsed.ok THEN Err("Invalid User Key format or signature")
  ELSE Ok(parsed.val)

verifiedOrThrow(parsed) ==
  IF ~parsed.ok THEN Err("Invalid User Key format or signature")
  ELSE IF ~verifyUserKey(parsed.val)
  THEN Err("Invalid User Key format or signature")
  ELSE Ok(parsed.val)

importUserKey(serializedUserKey) ==
  verifiedOrThrow(deserializeUserKey(serializedUserKey))

\* what deserializeUserKey, verifyUserKey and importUserKey make of a text
ImportedOf(parsed) ==
  [parsed |-> parsed,
   verified |-> parsed.ok /\ verifyUserKey(parsed.val),
   imported |-> verifiedOrThrow(parsed).ok]

Imported(text) == ImportedOf(deserializeUserKey(text))

\* another party hands over the serialized User Key with one signature bit
\* changed
ImportTampered(bit) ==
  /\ fromKeys
  /\ outSerialized # <<>>
  /\ outParsed # NullRec
  /\ outVerified = "true"
  /\ outProbe.op = "none"
  /\ outProbe' = Probed("importTampered", bit,
                        Imported(flipSignatureBit(outSerialized, bit)))
  /\ ProbeOnly

\* ------------------------------------------------------------------------
\* passkey.ts: PassKeyService over localStorage and the platform
\* authenticator
\* ------------------------------------------------------------------------
\* Array.from(masterSeed, byte => byte.toString(16).padStart(2, '0')).join('')
\* : a string of hex digits, each given by its value 0..15
toHex(bytes) ==
  [i \in 1..(2 * Len(bytes)) |->
     IF i % 2 = 1 THEN bytes[(i + 1) \div 2] \div 16 ELSE bytes[i \div 2] % 16]

\* the loop of parseInt(hex.substr(i, 2), 16) over an even-length hex string
fromHex(hex) ==
  [j \in 1..(Len(hex) \div 2) |-> 16 * hex[2 * j - 1] + hex[2 * j]]

Emails == {"alice"}
CredIds == 1..NumAccounts

EmptyStorage ==
  [anoma_user_key |-> <<>>,
   anoma_user_email |-> "",
   anoma_current_credential |-> 0,
   anoma_seed |-> [c \in CredIds |-> <<>>]]

hasStoredCredentials == localStorage.anoma_current_credential # 0

\* localStorage after registerPassKey stored the seed under a new credential
registerStore(credentialId, masterSeed) ==
  [localStorage EXCEPT !.anoma_seed[credentialId] = toHex(masterSeed),
                       !.anoma_current_credential = credentialId]

clearStoredCredentials ==
  [localStorage EXCEPT !.anoma_seed = [c \in CredIds |-> <<>>],
                       !.anoma_current_credential = 0]

\* ------------------------------------------------------------------------
\* embeddedWallet.ts: EmbeddedWalletService
\* ------------------------------------------------------------------------
\* an async call on the wallet: the operation, the await it is suspended at
\* and its local variables
NewCall(op, pc) ==
  [op |-> op, pc |-> pc, email |-> "", masterSeed |-> <<>>,
   credentialId |-> 0, cachedUserKey |-> <<>>, cachedEmail |-> ""]

NoResult == [op |-> "none", outcome |-> "none"]

InFlight == BagToSet(calls)

CanCall == BagCardinality(calls) < NumCalls

Start(call) == calls' = calls (+) SetToBag({call})

Resume(call, next) == calls' = (calls (-) SetToBag({call})) (+) SetToBag({next})

\* a call settles: "returned" / "threw", or the boolean result "true" /
\* "false" of authenticateForTransaction; lastResult holds it until the next
\* step of the wallet
Settle(call, outcome) ==
  /\ calls' = calls (-) SetToBag({call})
  /\ lastResult' = [op |-> call.op, outcome |-> outcome]

\* a call that throws before its first await
Refuse(op, outcome) ==
  /\ UNCHANGED calls
  /\ lastResult' = [op |-> op, outcome |-> outcome]

\* a restore that also brings back the keys of the previous page
tryRestoreFromCacheWithKeys ==
  /\ UNCHANGED <<staticKeys, localStorage>>
  /\ userKey' = IF staticKeys = NullRec THEN NullRec
                ELSE createUserKey(staticKeys)
  /\ userEmail' = localStorage.anoma_user_email

\* tryRestoreFromCache on a fresh service instance: only userKey and
\* userEmail are restored; a cached key that does not parse is removed
tryRestoreFromCache ==
  LET cachedUserKeyText == localStorage.anoma_user_key
      cachedEmail == localStorage.anoma_user_email
      parsed == deserializeUserKey(cachedUserKeyText)
  IN /\ staticKeys' = NullRec
     /\ IF cachedUserKeyText # <<>> /\ cachedEmail # "" /\ hasStoredCredentials
        THEN IF parsed.ok
             THEN /\ userKey' = parsed.val
                  /\ userEmail' = cachedEmail
                  /\ UNCHANGED localStorage
             ELSE /\ userKey' = NullRec
                  /\ userEmail' = ""
                  /\ localStorage' = [localStorage EXCEPT
                                        !.anoma_user_key = <<>>,
                                        !.anoma_user_email = ""]
        ELSE /\ userKey' = NullRec
             /\ userEmail' = ""
             /\ UNCHANGED localStorage

\* page load: a new EmbeddedWalletService instance; continuations of the
\* previous page are gone
Reload ==
  /\ tryRestoreFromCache
  /\ vaultAuthenticated' = FALSE
  /\ calls' = EmptyBag
  /\ lastResult' = NoResult
  /\ UNCHANGED <<rng, vaultCreds>>

\* createAccount up to its await of registerPassKey / startRegistration
CreateAccountCall(email) ==
  /\ CanCall
  /\ vaultCreds + Cardinality({d \in InFlight : d.pc = "registering"})
       < NumAccounts
  /\ rng <= NumAccounts
  /\ Start([NewCall("createAccount", "registering") EXCEPT
              !.email = email, !.masterSeed = generateMasterSeed(rng)])
  /\ rng' = rng + 1
  /\ lastResult' = NoResult
  /\ UNCHANGED <<vaultAuthenticated, staticKeys, userKey, userEmail, localStorage, vaultCreds>>

\* startRegistration resolves: registerPassKey stores the seed and returns
RegisterApprove(call) ==
  /\ call.pc = "registering"
  /\ vaultCreds' = vaultCreds + 1
  /\ localStorage' = registerStore(vaultCreds + 1, call.masterSeed)
  /\ Resume(call, [call EXCEPT !.pc = "registered",
                               !.credentialId = vaultCreds + 1])
  /\ lastResult' = NoResult
  /\ vaultAuthenticated' = TRUE
  /\ UNCHANGED <<rng, staticKeys, userKey, userEmail>>

\* startRegistration rejects (user cancelled, timeout): createAccount rethrows
RegisterCancel(call) ==
  /\ call.pc = "registering"
  /\ Settle(call, "threw")
  /\ UNCHANGED <<vaultAuthenticated, rng, staticKeys, userKey, userEmail, localStorage, vaultCreds>>

\* createAccount after registerPassKey returned success
CreateAccountFinish(call) ==
  /\ call.pc = "registered"
  /\ LET keys == generateStaticKeys(call.masterSeed)
     IN IF ~keys.ok
        THEN /\ Settle(call, "threw")
             /\ UNCHANGED <<staticKeys, userKey, userEmail, localStorage>>
        ELSE /\ staticKeys' = keys.val
             /\ userKey' = createUserKey(keys.val)
             /\ userEmail' = call.email
             /\ localStorage' = [localStorage EXCEPT
                   !.anoma_user_key = serializeUserKey(createUserKey(keys.val)),
                   !.anoma_user_email = call.email]
             /\ Settle(call, "returned")
  /\ UNCHANGED <<vaultAuthenticated, rng, vaultCreds>>

\* loadAccount up to its await of authenticateAndRetrieveSeed
LoadAccountCall ==
  /\ CanCall
  /\ IF hasStoredCredentials /\ localStorage.anoma_user_key # <<>>
          /\ localStorage.anoma_user_email # ""
     THEN /\ Start([NewCall("loadAccount", "auth0") EXCEPT
                     !.cachedUserKey = localStorage.anoma_user_key,
                     !.cachedEmail = localStorage.anoma_user_email])
          /\ lastResult' = NoResult
     ELSE Refuse("loadAccount", "threw")
  /\ UNCHANGED <<vaultAuthenticated, rng, staticKeys, userKey, userEmail, localStorage, vaultCreds>>

\* authenticateForTransaction up to its await of authenticateAndRetrieveSeed
AuthenticateForTransactionCall ==
  /\ CanCall
  /\ IF staticKeys # NullRec
     THEN /\ Start(NewCall("authenticateForTransaction", "auth0"))
          /\ lastResult' = NoResult
     ELSE Refuse("authenticateForTransaction", "false")
  /\ UNCHANGED <<vaultAuthenticated, rng, staticKeys, userKey, userEmail, localStorage, vaultCreds>>

\* a failed authentication reported to the caller as a success
AuthFailedAsSuccess(call) ==
  Settle(call, IF call.op = "loadAccount" THEN "returned" ELSE "true")

\* what a failure inside authenticateAndRetrieveSeed becomes in the caller:
\* loadAccount rethrows, authenticateForTransaction returns false
AuthFailed(call) ==
  Settle(call, IF call.op = "loadAccount" THEN "threw" ELSE "false")

\* authenticateAndRetrieveSeed after isPlatformAuthenticatorAvailable: reads
\* the current credential id and awaits startAuthentication
AuthReadCredential(call) ==
  /\ call.pc = "auth0"
  /\ IF localStorage.anoma_current_credential = 0
     THEN AuthFailed(call)
     ELSE /\ Resume(call, [call EXCEPT !.pc = "auth1",
                     !.credentialId = localStorage.anoma_current_credential])
          /\ lastResult' = NoResult
  /\ UNCHANGED <<vaultAuthenticated, rng, staticKeys, userKey, userEmail, localStorage, vaultCreds>>

\* startAuthentication resolves: the seed stored under the credential is read
AuthApprove(call) ==
  /\ call.pc = "auth1"
  /\ LET masterSeedHex == localStorage.anoma_seed[call.credentialId]
     IN IF masterSeedHex = <<>>
        THEN AuthFailed(call)
        ELSE /\ Resume(call, [call EXCEPT !.pc = "auth2",
                                          !.masterSeed = fromHex(masterSeedHex)])
             /\ lastResult' = NoResult
  /\ vaultAuthenticated' =
       (vaultAuthenticated \/ localStorage.anoma_seed[call.credentialId] # <<>>)
  /\ UNCHANGED <<rng, staticKeys, userKey, userEmail, localStorage, vaultCreds>>

\* startAuthentication rejects (user cancelled, timeout)
AuthCancel(call) ==
  /\ call.pc = "auth1"
  /\ AuthFailed(call)
  /\ UNCHANGED <<vaultAuthenticated, rng, staticKeys, userKey, userEmail, localStorage, vaultCreds>>

\* loadAccount after authenticateAndRetrieveSeed returned the seed
LoadAccountFinish(call) ==
  /\ call.pc = "auth2"
  /\ call.op = "loadAccount"
  /\ LET keys == generateStaticKeys(call.masterSeed)
         parsed == deserializeUserKey(call.cachedUserKey)
     IN IF ~keys.ok
        THEN /\ Settle(call, "threw")
             /\ UNCHANGED <<staticKeys, userKey, userEmail>>
        ELSE IF ~parsed.ok
        THEN /\ staticKeys' = keys.val
             /\ Settle(call, "threw")
             /\ UNCHANGED <<userKey, userEmail>>
        ELSE /\ staticKeys' = keys.val
             /\ userKey' = parsed.val
             /\ userEmail' = call.cachedEmail
             /\ Settle(call, IF verifyUserKey(parsed.val)
                             THEN "returned" ELSE "threw")
  /\ UNCHANGED <<vaultAuthenticated, rng, localStorage, vaultCreds>>

\* authenticateForTransaction after authenticateAndRetrieveSeed returned
AuthenticateForTransactionFinish(call) ==
  /\ call.pc = "auth2"
  /\ call.op = "authenticateForTransaction"
  /\ LET keys == generateStaticKeys(call.masterSeed)
     IN IF keys.ok
        THEN /\ staticKeys' = keys.val
             /\ Settle(call, "true")
        ELSE /\ UNCHANGED staticKeys
             /\ Settle(call, "false")
  /\ UNCHANGED <<vaultAuthenticated, rng, userKey, userEmail, localStorage, vaultCreds>>

\* a promise continuation that holds the seed of a vault request that has
\* just resolved is queued: an event handler runs only after it
ContinuationQueued == \E call \in InFlight : call.pc \in {"registered", "auth2"}

\* logout(), called from an event handler
\* a logout that also calls clearStoredCredentials
LogoutClearingCredentials ==
  /\ ~ContinuationQueued
  /\ vaultAuthenticated' = FALSE
  /\ staticKeys' = NullRec
  /\ userKey' = NullRec
  /\ userEmail' = ""
  /\ localStorage' = [clearStoredCredentials EXCEPT !.anoma_user_key = <<>>,
                                                    !.anoma_user_email = ""]
  /\ lastResult' = NoResult
  /\ UNCHANGED <<rng, vaultCreds, calls>>

Logout ==
  /\ ~ContinuationQueued
  /\ vaultAuthenticated' = FALSE
  /\ staticKeys' = NullRec
  /\ userKey' = NullRec
  /\ userEmail' = ""
  /\ localStorage' = [localStorage EXCEPT !.anoma_user_key = <<>>,
                                          !.anoma_user_email = ""]
  /\ lastResult' = NoResult
  /\ UNCHANGED <<rng, vaultCreds, calls>>

DeleteAccount ==
  /\ ~ContinuationQueued
  /\ vaultAuthenticated' = FALSE
  /\ staticKeys' = NullRec
  /\ userKey' = NullRec
  /\ userEmail' = ""
  /\ localStorage' = [clearStoredCredentials EXCEPT !.anoma_user_key = <<>>,
                                                    !.anoma_user_email = ""]
  /\ lastResult' = NoResult
  /\ UNCHANGED <<rng, vaultCreds, calls>>

WalletIdle ==
  /\ staticKeys = NullRec
  /\ userKey = NullRec
  /\ userEmail = ""
  /\ localStorage = EmptyStorage
  /\ vaultCreds = 0
  /\ calls = EmptyBag
  /\ lastResult = NoResult
  /\ vaultAuthenticated = FALSE

\* ------------------------------------------------------------------------
\* AliceBobTest.tsx: sender and recipient steps
\* ------------------------------------------------------------------------
Entry(step, success, details) ==
  [step |-> step, success |-> success, details |-> details]

\* the payload createTestResource encodes
ResourceValues == {<<123, 100, 125>>, <<123, 0, 7, 125>>}

\* addTestResult calls of runAliceSendsResource up to the given step
AliceSteps(n) ==
  SubSeq(<<Entry("Step 1", TRUE, ""), Entry("Step 2", TRUE, ""),
           Entry("Step 3", TRUE, ""), Entry("Step 4", TRUE, ""),
           Entry("Step 5", TRUE, ""), Entry("Step 6", TRUE, ""),
           Entry("Step 7", TRUE, ""), Entry("Step 8", TRUE, ""),
           Entry("Transaction Created", TRUE, "")>>, 1, n)

\* runAliceSendsResource: the whole handler; r is the first unused draw of
\* the entropy source, value the resource payload
AliceRun(value, r) ==
  LET bobKey == deserializeUserKey(bobUserKey)
      resource == [id |-> now, type |-> "digital_token", value |-> value,
                   cnk |-> bobKey.val.cnk]
      ephemeralEncryptionKeyPair == generateEphemeralEncryptionKeyPair(r)
      dhSecret1 == diffieHellman(ephemeralEncryptionKeyPair.privateKey,
                                 bobKey.val.sepk)
      resourceEncryptionKey == kdf(dhSecret1.val,
                                   ephemeralEncryptionKeyPair.publicKey)
      encryptedResource == encrypt(resourceEncryptionKey, value, r + 1)
      ephemeralDiscoveryKeyPair == generateEphemeralDiscoveryKeyPair(r + 2)
      dhSecret2 == diffieHellman(ephemeralDiscoveryKeyPair.privateKey,
                                 bobKey.val.sdpk)
      discoveryEncryptionKey == kdf(dhSecret2.val,
                                    ephemeralDiscoveryKeyPair.publicKey)
      discoveryMsg == <<82, now>>
      encryptedDiscovery == encrypt(discoveryEncryptionKey, discoveryMsg, r + 3)
      tx == [encryptedResource |-> encryptedResource,
             ephemeralEncryptionPublicKey |-> ephemeralEncryptionKeyPair.publicKey,
             encryptedDiscovery |-> encryptedDiscovery,
             ephemeralDiscoveryPublicKey |-> ephemeralDiscoveryKeyPair.publicKey,
             timestamp |-> now,
             transactionId |-> now]
      Fail(n, msg, res, dm) ==
        [results |-> AliceSteps(n) \o <<Entry("Error", FALSE, msg)>>,
         testResource |-> res, discoveryMessage |-> dm,
         transaction |-> NullRec, draws |-> 0]
  IN IF ~bobKey.ok THEN Fail(1, bobKey.err, testResource, discoveryMessage)
     ELSE IF ~dhSecret1.ok
     THEN [Fail(3, dhSecret1.err, resource, discoveryMessage) EXCEPT !.draws = 1]
     ELSE IF ~dhSecret2.ok
     THEN [Fail(6, dhSecret2.err, resource, discoveryMessage) EXCEPT !.draws = 3]
     ELSE [results |-> AliceSteps(9), testResource |-> resource,
           discoveryMessage |-> discoveryMsg, transaction |-> tx, draws |-> 4]

SetBobUserKey(text) ==
  /\ text # bobUserKey
  /\ bobUserKey' = text
  /\ UNCHANGED <<rng, now, testResource, discoveryMessage, transaction,
                 decryptedResource, testResults, bobPc, sentTo, published>>

ClearResults ==
  /\ bobPc = "idle"
  /\ testResults # <<>> \/ transaction # NullRec \/ decryptedResource # NullRec
  /\ testResults' = <<>>
  /\ transaction' = NullRec
  /\ decryptedResource' = NullRec
  /\ sentTo' = <<>>
  /\ UNCHANGED published
  /\ UNCHANGED <<rng, now, bobUserKey, testResource, discoveryMessage, bobPc>>

RunAliceSendsResource ==
  /\ bobPc = "idle"
  /\ bobUserKey # <<>>
  /\ rng + 3 <= MaxRand
  /\ \E value \in ResourceValues :
       LET run == AliceRun(value, rng)
       IN /\ testResults' = run.results
          /\ testResource' = run.testResource
          /\ discoveryMessage' = run.discoveryMessage
          /\ transaction' = run.transaction
          /\ sentTo' = IF run.transaction = NullRec THEN <<>> ELSE bobUserKey
          /\ published' =
               IF run.transaction = NullRec THEN published
               ELSE Append(published,
                      [eepk |-> run.transaction.ephemeralEncryptionPublicKey,
                       edpk |-> run.transaction.ephemeralDiscoveryPublicKey])
          /\ rng' = rng + run.draws
  /\ decryptedResource' = NullRec
  /\ now' = now + 1
  /\ UNCHANGED <<bobUserKey, bobPc>>

\* runBobReceivesResource from Step 9 on, with the static keys it obtained
BobDecrypt(bobStaticKeys) ==
  LET bobDiscoverySecret == diffieHellman(bobStaticKeys.staticDiscovery.privateKey,
                                          transaction.ephemeralDiscoveryPublicKey)
      bobDiscoveryKey == kdf(bobDiscoverySecret.val,
                             transaction.ephemeralDiscoveryPublicKey)
      decryptedDiscoveryBytes == decrypt(bobDiscoveryKey,
                                         transaction.encryptedDiscovery)
      bobResourceSecret == diffieHellman(bobStaticKeys.staticEncryption.privateKey,
                                         transaction.ephemeralEncryptionPublicKey)
      bobResourceKey == kdf(bobResourceSecret.val,
                            transaction.ephemeralEncryptionPublicKey)
      decryptedResourceBytes == decrypt(bobResourceKey,
                                        transaction.encryptedResource)
      Failed(steps, msg) ==
        [results |-> steps \o <<Entry("Error", FALSE, msg)>>,
         decryptedResource |-> decryptedResource]
      s9 == <<Entry("Step 9", TRUE, "")>>
      s10 == s9 \o <<Entry("Step 10", TRUE, "")>>
      s11 == s10 \o <<Entry("Step 11", TRUE,
                IF decryptedDiscoveryBytes.val = discoveryMessage
                THEN "matches" ELSE "differs")>>
      s12 == s11 \o <<Entry("Step 12", TRUE, "")>>
  IN IF ~bobDiscoverySecret.ok
     THEN Failed(s9, "Bob decryption failed: " \o bobDiscoverySecret.err)
     ELSE IF ~decryptedDiscoveryBytes.ok
     THEN Failed(s10, "Bob decryption failed: " \o decryptedDiscoveryBytes.err)
     ELSE IF ~bobResourceSecret.ok
     THEN Failed(s11, "Bob decryption failed: " \o bobResourceSecret.err)
     ELSE IF ~decryptedResourceBytes.ok
     THEN Failed(s12, "Bob decryption failed: " \o decryptedResourceBytes.err)
     ELSE [results |-> s12 \o
             <<Entry("Step 13", TRUE,
                 IF testResource.value = decryptedResourceBytes.val
                 THEN "dataMatches" ELSE "dataDiffers"),
               Entry("Complete", TRUE, "")>>,
           decryptedResource |->
             [id |-> testResource.id, type |-> testResource.type,
              value |-> decryptedResourceBytes.val, cnk |-> testResource.cnk]]

\* runBobReceivesResource when the wallet already holds static keys
RunBobReceivesResource ==
  /\ bobPc = "idle"
  /\ transaction # NullRec
  /\ staticKeys # NullRec
  /\ Len(testResults) + 8 <= MaxResults
  /\ LET run == BobDecrypt(staticKeys)
     IN /\ testResults' = testResults \o run.results
        /\ decryptedResource' = run.decryptedResource
  /\ UNCHANGED <<rng, now, bobUserKey, testResource, discoveryMessage,
                 transaction, bobPc, sentTo, published, walletVars>>

\* runBobReceivesResource when getStaticKeys throws: Bob awaits loadAccount
RunBobAuthenticates ==
  /\ bobPc = "idle"
  /\ transaction # NullRec
  /\ staticKeys = NullRec
  /\ Len(testResults) + 10 <= MaxResults
  /\ LoadAccountCall
  /\ testResults' = Append(testResults, Entry("Authentication", TRUE, "needs"))
  /\ bobPc' = "loading"
  /\ UNCHANGED <<now, bobUserKey, testResource, discoveryMessage, transaction,
                 decryptedResource, sentTo, published>>

\* loadAccount settled: Bob continues with the keys, or the catch reports
BobAfterLoadAccount ==
  /\ bobPc = "loading"
  /\ calls = EmptyBag
  /\ bobPc' = "idle"
  /\ IF lastResult.outcome = "returned" /\ staticKeys # NullRec
     THEN LET run == BobDecrypt(staticKeys)
          IN /\ testResults' = testResults
                   \o <<Entry("Authentication", TRUE, "authenticated")>>
                   \o run.results
             /\ decryptedResource' = run.decryptedResource
     ELSE /\ testResults' = Append(testResults,
               Entry("Error", FALSE, "Bob decryption failed: loadAccount"))
          /\ UNCHANGED decryptedResource
  /\ UNCHANGED <<rng, now, bobUserKey, testResource, discoveryMessage,
                 transaction, sentTo, published, walletVars>>

TransferIdle ==
  /\ now = 1
  /\ bobUserKey = <<>>
  /\ testResource = NullRec
  /\ discoveryMessage = <<>>
  /\ transaction = NullRec
  /\ decryptedResource = NullRec
  /\ testResults = <<>>
  /\ bobPc = "idle"
  /\ sentTo = <<>>
  /\ published = <<>>

\* ------------------------------------------------------------------------
\* derivationWallet.ts: wallet adapters and DerivationWalletService
\* ------------------------------------------------------------------------
\* TextEncoder().encode(label): one code byte per distinct label
ANOMA_DOMAIN_SEPARATORS ==
  [NULLIFIER |-> <<31>>,
   STATIC_ENCRYPTION |-> <<32>>,
   STATIC_DISCOVERY |-> <<33>>,
   IDENTITY_VERIFICATION |-> <<34>>]

LabelIDENTITY == <<35>>
LabelCNK == <<36>>

\* the messages deriveStaticKeys has signed, in the order it requests them
DerivationMessages ==
  <<ANOMA_DOMAIN_SEPARATORS.NULLIFIER,
    ANOMA_DOMAIN_SEPARATORS.STATIC_ENCRYPTION,
    ANOMA_DOMAIN_SEPARATORS.STATIC_DISCOVERY,
    ANOMA_DOMAIN_SEPARATORS.IDENTITY_VERIFICATION>>

\* MetaMaskAdapter and PhantomAdapter are the same code over another provider
\* object: one external wallet stands for both
ExternalWallets == {"MetaMask"}
Adapters == {"PassKey"} \cup ExternalWallets

\* ECDSA with a caller-chosen nonce k: same key and hash, another signature
ecdsaSign(messageHash, privateKey, k) ==
  Pad(<<Tag.sig>> \o NonZero(privateKey) \o NonZero(messageHash) \o <<k>>, 64)

\* the account key held by an external wallet
WalletKey(adapter) == Pad(<<77>>, 32)

\* PassKeyAdapter.signMessage after authenticateAndRetrieveSeed returned the
\* stored seed: signature.toCompactHex(), 128 hex digits without prefix
PassKeySignMessage(message) ==
  LET masterSeed ==
        fromHex(localStorage.anoma_seed[localStorage.anoma_current_credential])
      identityPrivateKey == sha256(masterSeed \o LabelIDENTITY)
      messageHash == sha256(message)
  IN toHex(sign(messageHash, identityPrivateKey))

\* MetaMaskAdapter / PhantomAdapter.signMessage: the personal_sign answer of
\* the wallet, '0x' followed by the 130 hex digits of r, s, v; a hex string
\* is given by its digit values, the character 'x' by 33
WalletSignMessage(adapter, message) ==
  LET messageHash == sha256(<<25>> \o message)
      rs == IF signerDeterministic[adapter]
            THEN sign(messageHash, WalletKey(adapter))
            ELSE ecdsaSign(messageHash, WalletKey(adapter), signerNonce + 1)
  IN <<0, 33>> \o toHex(rs \o <<27>>)

\* the signer behind the adapter draws a fresh nonce for every signature
Randomized(adapter) ==
  adapter \in ExternalWallets /\ ~signerDeterministic[adapter]

\* a signer that salts every signature with a counter of its derivations
signMessageSalted(adapter, message) ==
  LET salt == IF adapter \in Adapters /\ derivations[adapter].keys # NullRec
              THEN 2 ELSE 1
  IN toHex(ecdsaSign(sha256(message), WalletKey(adapter), salt))

signMessage(adapter, message) ==
  IF adapter = "PassKey" THEN PassKeySignMessage(message)
  ELSE WalletSignMessage(adapter, message)

\* cleanSig.match(/.{1,2}/g).map(byte => parseInt(byte, 16)): a trailing
\* single digit is a byte of its own
hexPairs(cleanSig) ==
  [j \in 1..((Len(cleanSig) + 1) \div 2) |->
     IF 2 * j <= Len(cleanSig) THEN 16 * cleanSig[2 * j - 1] + cleanSig[2 * j]
     ELSE cleanSig[2 * j - 1]]

\* the private key hashed from the first two bytes of the signature only
signatureToPrivateKeyPrefix(signature) ==
  Ok(sha256(SubSeq(hexPairs(signature), 1, 2)))

signatureToPrivateKey(signature) ==
  LET cleanSig == IF Len(signature) >= 2 /\ signature[1] = 0 /\ signature[2] = 33
                  THEN SubSeq(signature, 3, Len(signature))
                  ELSE signature
      sigBytes == hexPairs(cleanSig)
      privateKey == sha256(sigBytes)
  IN IF cleanSig = <<>> THEN Err("TypeError")
     ELSE IF \A i \in 1..Len(privateKey) : privateKey[i] = 0
     THEN Err("Invalid private key: all zeros")
     ELSE Ok(privateKey)

\* KeyPair of a given private key: {privateKey: 32 bytes, publicKey: 33-byte
\* compressed point}
generateKeyPairFromPrivateKey(privateKey) ==
  [privateKey |-> privateKey, publicKey |-> getPublicKey(privateKey)]

\* deriveStaticKeys after its four signatures arrived
DeriveKeys(sigs) ==
  LET nullifierPrivateKey == signatureToPrivateKey(sigs[1])
      encryptionPrivateKey == signatureToPrivateKey(sigs[2])
      discoveryPrivateKey == signatureToPrivateKey(sigs[3])
      identityPrivateKey == signatureToPrivateKey(sigs[4])
      nk == nullifierPrivateKey.val
      cnk == sha256(nk \o LabelCNK)
  IN IF ~nullifierPrivateKey.ok THEN nullifierPrivateKey
     ELSE IF ~encryptionPrivateKey.ok THEN encryptionPrivateKey
     ELSE IF ~discoveryPrivateKey.ok THEN discoveryPrivateKey
     ELSE IF ~identityPrivateKey.ok THEN identityPrivateKey
     ELSE Ok([identity |-> generateKeyPairFromPrivateKey(identityPrivateKey.val),
              nullifier |-> [nk |-> nk, cnk |-> cnk],
              staticEncryption |->
                generateKeyPairFromPrivateKey(encryptionPrivateKey.val),
              staticDiscovery |->
                generateKeyPairFromPrivateKey(discoveryPrivateKey.val)])

\* what a step of a call returned: outcome "returned" / "threw", or "derived"
\* when deriveStaticKeys returns to getUserKey; "by" is the signer the keys
\* were derived from, fresh tells a derivation from a cache hit, prevKeys and
\* prevText are what the previous derivation by the same signer returned
Returned(op, outcome, by, fresh, keys, text) ==
  [op |-> op, outcome |-> outcome, by |-> by, fresh |-> fresh, keys |-> keys,
   text |-> text,
   prevKeys |-> IF fresh /\ by \in Adapters THEN derivations[by].keys
                ELSE NullRec,
   prevText |-> IF text # <<>> /\ by \in Adapters THEN derivations[by].text
                ELSE <<>>]

Threw(op) ==
  [op |-> op, outcome |-> "threw", by |-> "", fresh |-> FALSE,
   keys |-> NullRec, text |-> <<>>, prevKeys |-> NullRec, prevText |-> <<>>]

NoDerive == [Threw("none") EXCEPT !.outcome = "none"]

\* a call suspended at the await of a signature (pc "signing", the request
\* sent to "pending"; "sent" holds the messages of the signMessage calls it
\* has made) or at getUserKey's await of deriveStaticKeys ("gotKeys")
NewDerive(op) ==
  [op |-> op, pc |-> "signing", pending |-> currentAdapter, sigs |-> <<>>,
   sent |-> <<ANOMA_DOMAIN_SEPARATORS.NULLIFIER>>,
   by |-> currentAdapter, keys |-> NullRec]

\* derivations[by].keys: the StaticKeySet of the most recent derivation whose
\* four signatures all came from signer "by"; derivations[by].text: the most
\* recent serialized User Key built from such keys
NoDerivations == [by \in Adapters |-> [keys |-> NullRec, text |-> <<>>]]

DerivedKeys(by, keys) ==
  IF by \in Adapters THEN [derivations EXCEPT ![by].keys = keys]
  ELSE derivations

SharedText(by, text) ==
  IF by \in Adapters THEN [derivations EXCEPT ![by].text = text]
  ELSE derivations

\* the pages await a derivation call before they start the next one
\* (isProcessing, isRunning)
CanDerive == derives = EmptyBag

DeriveSettle(call) == derives' = derives (-) SetToBag({call})

DeriveResume(call, next) ==
  derives' = (derives (-) SetToBag({call})) (+) SetToBag({next})

\* a clearCache that forgets the keys only
clearCacheKeysOnly ==
  /\ cachedKeys' = NullRec
  /\ cachedBy' = ""
  /\ UNCHANGED <<cachedUserKey, cachedAddress>>

clearCache ==
  /\ cachedKeys' = NullRec
  /\ cachedUserKey' = NullRec
  /\ cachedBy' = ""
  /\ cachedAddress' = ""

SetAdapter(adapter) ==
  /\ currentAdapter' = adapter
  /\ clearCache
  /\ lastDerive' = NoDerive
  /\ UNCHANGED <<derives, signerNonce, signerDeterministic,
                 derivations>>

ClearCache ==
  /\ cachedKeys # NullRec \/ cachedUserKey # NullRec \/ cachedAddress # ""
  /\ clearCache
  /\ lastDerive' = NoDerive
  /\ UNCHANGED <<currentAdapter, derives, signerNonce, signerDeterministic, derivations>>

\* a new session: a fresh DerivationWalletService; the continuations of the
\* previous page are gone
NewSession ==
  /\ currentAdapter # ""
  /\ currentAdapter' = ""
  /\ clearCache
  /\ derives' = EmptyBag
  /\ lastDerive' = NoDerive
  /\ UNCHANGED <<signerNonce, signerDeterministic, derivations>>

\* deriveStaticKeys up to its first await
DeriveStaticKeysCall ==
  /\ CanDerive
  /\ IF currentAdapter = ""
     THEN /\ lastDerive' = Threw("deriveStaticKeys")
          /\ UNCHANGED derives
     ELSE IF cachedKeys # NullRec
     THEN /\ lastDerive' = Returned("deriveStaticKeys", "returned", cachedBy,
                                     FALSE, cachedKeys, <<>>)
          /\ UNCHANGED derives
     ELSE /\ derives' = derives (+) SetToBag({NewDerive("deriveStaticKeys")})
          /\ lastDerive' = NoDerive
  /\ UNCHANGED <<cachedAddress, currentAdapter, cachedKeys, cachedUserKey, cachedBy,
                 signerNonce, signerDeterministic, derivations>>

\* getUserKeyForSharing -> getUserKey -> deriveStaticKeys up to the first await
GetUserKeyForSharingCall ==
  /\ CanDerive
  /\ IF cachedUserKey # NullRec
     THEN /\ lastDerive' = Returned("getUserKeyForSharing", "returned", "",
                                     FALSE, NullRec,
                                     serializeUserKey(cachedUserKey))
          /\ UNCHANGED derives
     ELSE IF currentAdapter = ""
     THEN /\ lastDerive' = Threw("getUserKeyForSharing")
          /\ UNCHANGED derives
     ELSE IF cachedKeys # NullRec
     THEN /\ derives' = derives (+) SetToBag({
               [NewDerive("getUserKeyForSharing") EXCEPT
                  !.pc = "gotKeys", !.pending = "", !.sent = <<>>,
                  !.by = cachedBy,
                  !.keys = cachedKeys]})
          /\ lastDerive' = NoDerive
     ELSE /\ derives' = derives (+) SetToBag({NewDerive("getUserKeyForSharing")})
          /\ lastDerive' = NoDerive
  /\ UNCHANGED <<cachedAddress, currentAdapter, cachedKeys, cachedUserKey, cachedBy,
                 signerNonce, signerDeterministic, derivations>>

\* the pending signMessage resolves (for the PassKey adapter only when the
\* vault authentication found a stored credential): deriveStaticKeys requests the next
\* signature from this.currentAdapter, or builds and caches the keys
SignResolve(call) ==
  /\ call.pc = "signing"
  /\ UNCHANGED cachedAddress
  /\ call.pending = "PassKey" => localStorage.anoma_current_credential # 0
  /\ Randomized(call.pending) => signerNonce < MaxSigns
  /\ signerNonce' = IF Randomized(call.pending) THEN signerNonce + 1
                    ELSE signerNonce
  /\ LET signature == signMessage(call.pending, call.sent[Len(call.sent)])
         sigs == Append(call.sigs, signature)
         keys == DeriveKeys(sigs)
     IN IF Len(sigs) < Len(DerivationMessages)
        THEN /\ DeriveResume(call,
                  [call EXCEPT !.sigs = sigs, !.pending = currentAdapter,
                     !.sent = Append(@, DerivationMessages[Len(sigs) + 1]),
                     !.by = IF call.by = currentAdapter THEN call.by ELSE "mixed"])
             /\ lastDerive' = NoDerive
             /\ UNCHANGED <<cachedKeys, cachedBy, derivations>>
        ELSE IF ~keys.ok
        THEN /\ DeriveSettle(call)
             /\ lastDerive' = Threw(call.op)
             /\ UNCHANGED <<cachedKeys, cachedBy, derivations>>
        ELSE /\ cachedKeys' = keys.val
             /\ cachedBy' = call.by
             /\ derivations' = DerivedKeys(call.by, keys.val)
             /\ IF call.op = "deriveStaticKeys"
                THEN /\ DeriveSettle(call)
                     /\ lastDerive' = Returned(call.op, "returned", call.by,
                                               TRUE, keys.val, <<>>)
                ELSE /\ DeriveResume(call,
                          [call EXCEPT !.pc = "gotKeys", !.pending = "",
                                       !.sigs = <<>>, !.sent = <<>>,
                                       !.keys = keys.val])
                     /\ lastDerive' = Returned(call.op, "derived", call.by,
                                               TRUE, keys.val, <<>>)
  /\ UNCHANGED <<currentAdapter, cachedUserKey, signerDeterministic>>

\* a rejected signMessage answered by sending the same request again
SignRejectResent(call) ==
  /\ call.pc = "signing"
  /\ DeriveResume(call, [call EXCEPT
                           !.sent = Append(@, call.sent[Len(call.sent)])])
  /\ lastDerive' = NoDerive
  /\ UNCHANGED <<cachedAddress, currentAdapter, cachedKeys, cachedUserKey, cachedBy,
                 signerNonce, signerDeterministic, derivations>>

\* the pending signMessage rejects (the user declines, authentication fails):
\* deriveStaticKeys rethrows
SignReject(call) ==
  /\ call.pc = "signing"
  /\ DeriveSettle(call)
  /\ lastDerive' = Threw(call.op)
  /\ UNCHANGED <<cachedAddress, currentAdapter, cachedKeys, cachedUserKey, cachedBy,
                 signerNonce, signerDeterministic, derivations>>

\* getUserKey after deriveStaticKeys returned, then getUserKeyForSharing
GetUserKeyFinish(call) ==
  /\ call.pc = "gotKeys"
  /\ DeriveSettle(call)
  /\ LET newUserKey == createUserKey(call.keys)
         text == serializeUserKey(newUserKey)
     IN /\ cachedUserKey' = newUserKey
        /\ IF verifyUserKey(newUserKey)
           THEN /\ lastDerive' = Returned(call.op, "returned", call.by, FALSE,
                                         call.keys, text)
                /\ derivations' = SharedText(call.by, text)
           ELSE /\ lastDerive' = Threw(call.op)
                /\ UNCHANGED derivations
  /\ UNCHANGED <<cachedAddress, currentAdapter, cachedKeys, cachedBy, signerNonce,
                 signerDeterministic>>

\* the account address an adapter reports
Address(adapter) == "0x" \o adapter

\* connect() up to its await of currentAdapter.connect()
ConnectCall ==
  /\ CanDerive
  /\ IF currentAdapter = ""
     THEN /\ lastDerive' = Threw("connect")
          /\ UNCHANGED derives
     ELSE /\ derives' = derives (+) SetToBag({
               [NewDerive("connect") EXCEPT !.pc = "connecting", !.sent = <<>>]})
          /\ lastDerive' = NoDerive
  /\ UNCHANGED <<cachedAddress, currentAdapter, cachedKeys, cachedUserKey, cachedBy,
                 signerNonce, signerDeterministic, derivations>>

\* getAddress() up to its await of currentAdapter.getAddress()
GetAddressCall ==
  /\ CanDerive
  /\ IF currentAdapter = ""
     THEN /\ lastDerive' = Threw("getAddress")
          /\ UNCHANGED derives
     ELSE IF cachedAddress # ""
     THEN /\ lastDerive' = [Threw("getAddress") EXCEPT !.outcome = "returned"]
          /\ UNCHANGED derives
     ELSE /\ derives' = derives (+) SetToBag({
               [NewDerive("getAddress") EXCEPT !.pc = "addressing", !.sent = <<>>]})
          /\ lastDerive' = NoDerive
  /\ UNCHANGED <<cachedAddress, currentAdapter, cachedKeys, cachedUserKey, cachedBy,
                 signerNonce, signerDeterministic, derivations>>

\* the wallet's eth_requestAccounts resolves: connect() clears the cache
\* (PassKeyAdapter.connect always throws)
ConnectResolve(call) ==
  /\ call.pc = "connecting"
  /\ call.pending \in ExternalWallets
  /\ DeriveSettle(call)
  /\ clearCache
  /\ lastDerive' = [Threw(call.op) EXCEPT !.outcome = "returned"]
  /\ UNCHANGED <<currentAdapter, signerNonce, signerDeterministic, derivations>>

\* the adapter answers getAddress: the address is cached
AddressResolve(call) ==
  /\ call.pc = "addressing"
  /\ call.pending = "PassKey" => localStorage.anoma_current_credential # 0
  /\ DeriveSettle(call)
  /\ cachedAddress' = Address(call.pending)
  /\ lastDerive' = [Threw(call.op) EXCEPT !.outcome = "returned"]
  /\ UNCHANGED <<currentAdapter, cachedKeys, cachedUserKey, cachedBy,
                 signerNonce, signerDeterministic, derivations>>

\* the adapter's connect or getAddress rejects: the call rethrows
AdapterRejects(call) ==
  /\ call.pc \in {"connecting", "addressing"}
  /\ DeriveSettle(call)
  /\ lastDerive' = Threw(call.op)
  /\ UNCHANGED <<cachedAddress, currentAdapter, cachedKeys, cachedUserKey, cachedBy,
                 signerNonce, signerDeterministic, derivations>>

DeriveIdle ==
  /\ currentAdapter = ""
  /\ cachedKeys = NullRec
  /\ cachedUserKey = NullRec
  /\ cachedBy = ""
  /\ cachedAddress = ""
  /\ derives = EmptyBag
  /\ lastDerive = NoDerive
  /\ signerNonce = 0
  /\ signerDeterministic = [w \in ExternalWallets |-> TRUE]
  /\ derivations = NoDerivations

\* ------------------------------------------------------------------------
\* Specifications
\* ------------------------------------------------------------------------
vars == <<rng, cryptoVars, walletVars, transferVars, deriveVars>>

\* the account whose master seed was the w-th draw of the entropy source
AccountSeed(w) == generateMasterSeed(w)
AccountKeys(w) == generateStaticKeys(AccountSeed(w)).val
AccountEmail(w) == IF w = 1 THEN "alice" ELSE "bob"

\* localStorage of a browser in which account w was created
AccountStorage(w) ==
  [EmptyStorage EXCEPT
     !.anoma_seed[1] = toHex(AccountSeed(w)),
     !.anoma_current_credential = 1,
     !.anoma_user_key = serializeUserKey(createUserKey(AccountKeys(w))),
     !.anoma_user_email = AccountEmail(w)]

\* User Key texts a user may paste as the recipient: the key of account a,
\* or that key with the static encryption key of account b in its place
PastedUserKey(a, b) ==
  serializeUserKey([createUserKey(AccountKeys(a)) EXCEPT
                      !.sepk = AccountKeys(b).staticEncryption.publicKey])

PastedUserKeys == {PastedUserKey(a, b) : a \in 1..NumAccounts, b \in 1..NumAccounts}

\* ------------------------------------------------------------------------
\* Exported functions applied to inputs that come from outside
\* ------------------------------------------------------------------------
\* a probing call is made on a fresh page, before any key is built
ProbeReady ==
  /\ outProbe.op = "none"
  /\ inSeed = <<>>
  /\ outUserKey = NullRec

\* the bytes serializeUserKey encodes for the User Key of account 1:
\* 4 + 33, 4 + 32, 4 + 33, 4 + 33 and 4 + 64 bytes
ValidBuffer == atob(serializeUserKey(createUserKey(AccountKeys(1)))).val

\* the buffer cut after n bytes: inside a length prefix, inside the data of
\* a field, at a field boundary, and one byte short
TruncationLengths ==
  {0, 2, 4, 20, 37, 39, 147, 149, 151, 200, Len(ValidBuffer) - 1}

\* the prefix of field k (0..4) of the buffer declaring n bytes
withDeclaredLength(buffer, k, n) ==
  LET at == CASE k = 0 -> 0 [] k = 1 -> 37 [] k = 2 -> 73 [] k = 3 -> 110
              [] k = 4 -> 147
  IN SubSeq(buffer, 1, at) \o LE32(n) \o SubSeq(buffer, at + 5, Len(buffer))

\* truncated buffers, and buffers whose prefixes declare more bytes than
\* remain
MalformedBuffers ==
  {SubSeq(ValidBuffer, 1, n) : n \in TruncationLengths}
    \cup {withDeclaredLength(ValidBuffer, k, n) : k \in 0..4, n \in {65, 1000}}

DeserializeMalformed(buffer) ==
  /\ ProbeReady
  /\ outProbe' = Probed("deserializeMalformed", buffer,
                        deserializeUserKey(btoa(buffer)))
  /\ ProbeOnly

\* User Keys no createUserKey built: the key of account 1 with a field of
\* the wrong length, an identity key that is no curve point, a signature
\* that is garbage or of another length, keys of another account
MalformedUserKeys ==
  LET k1 == createUserKey(AccountKeys(1))
      k2 == createUserKey(AccountKeys(2))
  IN {[k1 EXCEPT !.idpk = i] :
        i \in {<<>>, Tail(k1.idpk), k1.idpk \o <<1>>, <<5>> \o Tail(k1.idpk),
               Pad(<<2>>, 33), Pad(<<>>, 33), k2.idpk}}
     \cup {[k1 EXCEPT !.signature = g] :
        g \in {<<>>, SubSeq(k1.signature, 1, 63), k1.signature \o <<0>>,
               Pad(<<9, 9>>, 64), Pad(<<>>, 64), k2.signature}}
     \cup {[k1 EXCEPT !.cnk = n] :
        n \in {<<>>, SubSeq(k1.cnk, 1, 4), k1.cnk \o <<7>>, k2.cnk}}
     \cup {[k1 EXCEPT !.sepk = k1.sdpk, !.sdpk = k1.sepk],
           [k1 EXCEPT !.sepk = <<>>], [k1 EXCEPT !.sdpk = k2.sdpk]}

VerifyMalformed(uk) ==
  /\ ProbeReady
  /\ outProbe' = Probed("verifyMalformed", uk, verifyUserKey(uk))
  /\ ProbeOnly

\* secrets and seeds that are not 32 bytes long
WrongLengthSecrets == {Pad(<<7>>, n) : n \in {0, 1, 16, 31, 33, 64}}

\* prf(seed, domain) has no throw statement: what it returns, it returns
PrfWrongLength(secret) ==
  /\ ProbeReady
  /\ \E domain \in {DOMAIN_NULLIFIER, DOMAIN_NULLIFIER_COMMITMENT} :
       outProbe' = Probed("prf", secret, Ok(prf(secret, domain)))
  /\ ProbeOnly

GenerateStaticKeysWrongLength(masterSeed) ==
  /\ ProbeReady
  /\ outProbe' = Probed("generateStaticKeys", masterSeed,
                        generateStaticKeys(masterSeed))
  /\ ProbeOnly

\* public keys handed to diffieHellman: compressed points of key pairs, and
\* byte strings that are none (wrong length, uncompressed, wrong prefix
\* byte, x = 0)
CompressedPoints ==
  {AccountKeys(1).staticEncryption.publicKey,
   AccountKeys(2).staticDiscovery.publicKey,
   generateEphemeralEncryptionKeyPair(5).publicKey,
   <<3>> \o AccountKeys(1).identity.privateKey}

NotCompressedPoints ==
  {<<>>, <<2>>,
   AccountKeys(1).staticEncryption.privateKey,
   AccountKeys(1).staticEncryption.publicKey \o <<0>>,
   <<4>> \o AccountKeys(1).identity.privateKey
         \o AccountKeys(1).identity.privateKey,
   <<4>> \o AccountKeys(1).staticEncryption.privateKey,
   <<0>> \o AccountKeys(1).staticEncryption.privateKey,
   <<2>> \o Pad(<<>>, 32),
   Pad(<<>>, 33)}

DiffieHellmanOutside(publicKey) ==
  /\ ProbeReady
  /\ outProbe' = Probed("diffieHellman", publicKey,
         diffieHellman(AccountKeys(2).staticDiscovery.privateKey, publicKey))
  /\ ProbeOnly

\* envelopes handed to decrypt: what encrypt returned for a key and a
\* plaintext, as sent, with one bit of the nonce, the ciphertext or the tag
\* inverted, or cut short; and the key of the sender or another one
SentMessages ==
  {[key |-> key, plaintext |-> plaintext,
    envelope |-> encrypt(key, plaintext, 1)] :
     key \in {Pad(<<9, 8>>, 32), Pad(<<0, 0, 5>>, 32)},
     plaintext \in {<<123, 125>>, <<1, 0, 255>>}}

Received(sent) ==
  {[key |-> sent.key, envelope |-> sent.envelope],
   [key |-> [sent.key EXCEPT ![3] = (@ + 1) % 256],
    envelope |-> sent.envelope]}
  \cup {[key |-> sent.key,
         envelope |-> [sent.envelope EXCEPT
                         ![bit \div 8 + 1] = flipBit(@, bit % 8)]] :
          bit \in 0..(8 * Len(sent.envelope) - 1)}
  \cup {[key |-> sent.key, envelope |-> SubSeq(sent.envelope, 1, n)] :
          n \in {0, 11, 12, 27, Len(sent.envelope) - 1}}

DecryptOutside(sent, received) ==
  /\ ProbeReady
  /\ outProbe' = Probed("decrypt", [sent |-> sent, received |-> received],
                        decrypt(received.key, received.envelope))
  /\ ProbeOnly

\* texts handed to importUserKey: the serialized User Key of each account,
\* a truncated one, one whose last length prefix declares more bytes than the
\* buffer holds, and ones with the signature or the cnk of another account
ImportTexts ==
  LET k1 == createUserKey(AccountKeys(1))
      k2 == createUserKey(AccountKeys(2))
  IN {serializeUserKey(k1), serializeUserKey(k2),
      btoa(SubSeq(ValidBuffer, 1, 147)),
      btoa(withDeclaredLength(ValidBuffer, 4, 65)),
      serializeUserKey([k1 EXCEPT !.signature = k2.signature]),
      serializeUserKey([k1 EXCEPT !.cnk = k2.cnk]),
      serializeUserKey([k1 EXCEPT !.idpk = k2.idpk])}

\* EmbeddedWalletService.importUserKey(serializedUserKey), called on the
\* service in whatever state it is in
ImportUserKeyCall(text) ==
  /\ outProbe.op = "none"
  /\ outProbe' = Probed("importUserKey", text, importUserKey(text))
  /\ ProbeOnly
  /\ UNCHANGED <<walletVars, transferVars, deriveVars>>

\* what a step of one part of the system leaves alone
CryptoOnly == UNCHANGED <<walletVars, transferVars, deriveVars>>
WalletOnly == UNCHANGED <<cryptoVars, transferVars, deriveVars>>
PageOnly == UNCHANGED <<cryptoVars, walletVars, deriveVars>>
PageAndWallet == UNCHANGED <<cryptoVars, deriveVars>>
DeriveOnly == UNCHANGED <<rng, cryptoVars, walletVars, transferVars>>

\* SpecCrypto
InitCrypto ==
  /\ rng = 1
  /\ CryptoIdle
  /\ WalletIdle
  /\ TransferIdle
  /\ DeriveIdle

NextCrypto ==
  \/ PickSeed /\ CryptoOnly
  \/ ApplyGenerateStaticKeys /\ CryptoOnly
  \/ ApplyCreateUserKey /\ CryptoOnly
  \/ PickUserKey /\ CryptoOnly
  \/ ApplySerialize /\ CryptoOnly
  \/ ApplyDeserialize /\ CryptoOnly
  \/ ApplyVerify /\ CryptoOnly
  \/ \E bit \in SignatureBits : (ImportTampered(bit) /\ CryptoOnly)
  \/ \E buffer \in MalformedBuffers :
       (DeserializeMalformed(buffer) /\ CryptoOnly)
  \/ \E uk \in MalformedUserKeys : (VerifyMalformed(uk) /\ CryptoOnly)
  \/ \E secret \in WrongLengthSecrets : (PrfWrongLength(secret) /\ CryptoOnly)
  \/ \E sent \in SentMessages :
       \E received \in Received(sent) :
         (DecryptOutside(sent, received) /\ CryptoOnly)
  \/ \E publicKey \in CompressedPoints \cup NotCompressedPoints :
       (DiffieHellmanOutside(publicKey) /\ CryptoOnly)
  \/ \E masterSeed \in WrongLengthSecrets :
       (GenerateStaticKeysWrongLength(masterSeed) /\ CryptoOnly)

SpecCrypto == InitCrypto /\ [][NextCrypto]_vars

\* SpecWallet: the Stored-Seed wallet with concurrent calls
InitWallet ==
  /\ rng = 1
  /\ CryptoIdle
  /\ WalletIdle
  /\ TransferIdle
  /\ DeriveIdle

NextWallet ==
  \/ \E email \in Emails : (CreateAccountCall(email) /\ WalletOnly)
  \/ LoadAccountCall /\ WalletOnly
  \/ AuthenticateForTransactionCall /\ WalletOnly
  \/ \E call \in InFlight : (RegisterApprove(call) /\ WalletOnly)
  \/ \E call \in InFlight : (RegisterCancel(call) /\ WalletOnly)
  \/ \E call \in InFlight : (CreateAccountFinish(call) /\ WalletOnly)
  \/ \E call \in InFlight : (AuthReadCredential(call) /\ WalletOnly)
  \/ \E call \in InFlight : (AuthApprove(call) /\ WalletOnly)
  \/ \E call \in InFlight : (AuthCancel(call) /\ WalletOnly)
  \/ \E call \in InFlight : (LoadAccountFinish(call) /\ WalletOnly)
  \/ \E call \in InFlight : (AuthenticateForTransactionFinish(call) /\ WalletOnly)
  \/ Logout /\ WalletOnly
  \/ DeleteAccount /\ WalletOnly
  \/ Reload /\ WalletOnly

SpecWallet == InitWallet /\ [][NextWallet]_vars

\* SpecTransfer: the AliceBobTest page in a browser holding one account
InitTransfer ==
  /\ rng = NumAccounts + 1
  /\ CryptoIdle
  /\ DeriveIdle
  /\ \E w \in 1..NumAccounts, authenticated \in BOOLEAN :
       /\ localStorage = AccountStorage(w)
       /\ staticKeys = IF authenticated THEN AccountKeys(w) ELSE NullRec
       /\ vaultAuthenticated = authenticated
       /\ userKey = createUserKey(AccountKeys(w))
       /\ userEmail = AccountEmail(w)
       /\ bobUserKey = serializeUserKey(createUserKey(AccountKeys(w)))
  /\ vaultCreds = 1
  /\ calls = EmptyBag
  /\ lastResult = NoResult
  /\ now = 1
  /\ testResource = NullRec
  /\ discoveryMessage = <<>>
  /\ transaction = NullRec
  /\ decryptedResource = NullRec
  /\ testResults = <<>>
  /\ bobPc = "idle"
  /\ sentTo = <<>>
  /\ published = <<>>

NextTransfer ==
  \/ \E text \in PastedUserKeys : (SetBobUserKey(text) /\ PageOnly)
  \/ ClearResults /\ PageOnly
  \/ RunAliceSendsResource /\ PageOnly
  \/ RunBobReceivesResource /\ PageAndWallet
  \/ RunBobAuthenticates /\ PageAndWallet
  \/ BobAfterLoadAccount /\ PageAndWallet
  \/ \E call \in InFlight :
       (AuthReadCredential(call) /\ UNCHANGED transferVars /\ PageAndWallet)
  \/ \E call \in InFlight :
       (AuthApprove(call) /\ UNCHANGED transferVars /\ PageAndWallet)
  \/ \E call \in InFlight :
       (AuthCancel(call) /\ UNCHANGED transferVars /\ PageAndWallet)
  \/ \E call \in InFlight :
       (LoadAccountFinish(call) /\ UNCHANGED transferVars /\ PageAndWallet)

SpecTransfer == InitTransfer /\ [][NextTransfer]_vars

\* SpecDerive: the Derived-Signature wallet in a browser holding one
\* Stored-Seed account, with an external wallet that signs deterministically
\* or not
InitDerive ==
  /\ rng = NumAccounts + 1
  /\ CryptoIdle
  /\ TransferIdle
  /\ localStorage = AccountStorage(1)
  /\ staticKeys = NullRec
  /\ vaultAuthenticated = FALSE
  /\ userKey = createUserKey(AccountKeys(1))
  /\ userEmail = AccountEmail(1)
  /\ vaultCreds = 1
  /\ calls = EmptyBag
  /\ lastResult = NoResult
  /\ currentAdapter = ""
  /\ cachedKeys = NullRec
  /\ cachedUserKey = NullRec
  /\ cachedBy = ""
  /\ cachedAddress = ""
  /\ derives = EmptyBag
  /\ lastDerive = NoDerive
  /\ signerNonce = 0
  /\ signerDeterministic \in [ExternalWallets -> BOOLEAN]
  /\ derivations = NoDerivations

NextDerive ==
  \/ \E adapter \in Adapters : (SetAdapter(adapter) /\ DeriveOnly)
  \/ ClearCache /\ DeriveOnly
  \/ NewSession /\ DeriveOnly
  \/ DeriveStaticKeysCall /\ DeriveOnly
  \/ GetUserKeyForSharingCall /\ DeriveOnly
  \/ \E call \in BagToSet(derives) : (SignResolve(call) /\ DeriveOnly)
  \/ \E call \in BagToSet(derives) : (SignReject(call) /\ DeriveOnly)
  \/ \E call \in BagToSet(derives) : (GetUserKeyFinish(call) /\ DeriveOnly)

SpecDerive == InitDerive /\ [][NextDerive]_vars

\* SpecCache: one DerivationWalletService instance and its three caches,
\* with wallets that sign deterministically
InitCache ==
  /\ InitDerive
  /\ \A w \in ExternalWallets : signerDeterministic[w]

NextCache ==
  \/ \E adapter \in Adapters : (SetAdapter(adapter) /\ DeriveOnly)
  \/ ClearCache /\ DeriveOnly
  \/ DeriveStaticKeysCall /\ DeriveOnly
  \/ GetUserKeyForSharingCall /\ DeriveOnly
  \/ ConnectCall /\ DeriveOnly
  \/ GetAddressCall /\ DeriveOnly
  \/ \E call \in BagToSet(derives) : (SignResolve(call) /\ DeriveOnly)
  \/ \E call \in BagToSet(derives) : (SignReject(call) /\ DeriveOnly)
  \/ \E call \in BagToSet(derives) : (GetUserKeyFinish(call) /\ DeriveOnly)
  \/ \E call \in BagToSet(derives) : (ConnectResolve(call) /\ DeriveOnly)
  \/ \E call \in BagToSet(derives) : (AddressResolve(call) /\ DeriveOnly)
  \/ \E call \in BagToSet(derives) : (AdapterRejects(call) /\ DeriveOnly)

SpecCache == InitCache /\ [][NextCache]_vars

\* SpecWalletCalls: the Stored-Seed wallet under concurrent authentication
\* calls alone (createAccount, loadAccount, authenticateForTransaction)
NextWalletCalls ==
  \/ \E email \in Emails : (CreateAccountCall(email) /\ WalletOnly)
  \/ LoadAccountCall /\ WalletOnly
  \/ AuthenticateForTransactionCall /\ WalletOnly
  \/ \E call \in InFlight : (RegisterApprove(call) /\ WalletOnly)
  \/ \E call \in InFlight : (RegisterCancel(call) /\ WalletOnly)
  \/ \E call \in InFlight : (CreateAccountFinish(call) /\ WalletOnly)
  \/ \E call \in InFlight : (AuthReadCredential(call) /\ WalletOnly)
  \/ \E call \in InFlight : (AuthApprove(call) /\ WalletOnly)
  \/ \E call \in InFlight : (AuthCancel(call) /\ WalletOnly)
  \/ \E call \in InFlight : (LoadAccountFinish(call) /\ WalletOnly)
  \/ \E call \in InFlight : (AuthenticateForTransactionFinish(call) /\ WalletOnly)
  \/ \E text \in ImportTexts : ImportUserKeyCall(text)

SpecWalletCalls == InitWallet /\ [][NextWalletCalls]_vars

\* SpecStoredData: loadAccount and authenticateForTransaction on a browser
\* whose localStorage holds the entries of an account as createAccount wrote
\* them, or entries that were lost or changed outside the wallet: a cached
\* User Key with a foreign signature or cut short, a seed of 31 bytes, a
\* missing email, a missing credential id
StoredData ==
  LET k1 == createUserKey(AccountKeys(1))
      k2 == createUserKey(AccountKeys(2))
      stored == AccountStorage(1)
  IN {stored,
      [stored EXCEPT !.anoma_user_key =
         serializeUserKey([k1 EXCEPT !.signature = k2.signature])],
      [stored EXCEPT !.anoma_user_key = btoa(SubSeq(ValidBuffer, 1, 147))],
      [stored EXCEPT !.anoma_seed[1] = toHex(SubSeq(AccountSeed(1), 1, 31))],
      [stored EXCEPT !.anoma_seed[1] = <<>>],
      [stored EXCEPT !.anoma_user_email = ""],
      [stored EXCEPT !.anoma_current_credential = 0]}

InitStoredData ==
  /\ rng = NumAccounts + 1
  /\ CryptoIdle
  /\ TransferIdle
  /\ DeriveIdle
  /\ staticKeys = NullRec
  /\ userKey = NullRec
  /\ userEmail = ""
  /\ localStorage \in StoredData
  /\ vaultCreds = 1
  /\ calls = EmptyBag
  /\ lastResult = NoResult
  /\ vaultAuthenticated = FALSE

NextStoredData ==
  \/ LoadAccountCall /\ WalletOnly
  \/ AuthenticateForTransactionCall /\ WalletOnly
  \/ \E call \in InFlight : (AuthReadCredential(call) /\ WalletOnly)
  \/ \E call \in InFlight : (AuthApprove(call) /\ WalletOnly)
  \/ \E call \in InFlight : (AuthCancel(call) /\ WalletOnly)
  \/ \E call \in InFlight : (LoadAccountFinish(call) /\ WalletOnly)
  \/ \E call \in InFlight : (AuthenticateForTransactionFinish(call) /\ WalletOnly)
  \/ Logout /\ WalletOnly

SpecStoredData == InitStoredData /\ [][NextStoredData]_vars

\* SpecKeySourcing: a session that obtains its static keys by one of the two
\* strategies, the Stored-Seed wallet (on a fresh browser or with a stored
\* account) or the Derived-Signature wallet; the calls of one strategy are
\* made while the other service has not been used
StoredSeedUnused == calls = EmptyBag /\ lastResult = NoResult

DerivedSignatureUnused ==
  /\ currentAdapter = ""
  /\ derives = EmptyBag
  /\ lastDerive = NoDerive
  /\ derivations = NoDerivations

StoredSeedOnly == DerivedSignatureUnused /\ WalletOnly

DerivedSignatureOnly == StoredSeedUnused /\ DeriveOnly

InitKeySourcing == InitWallet \/ InitDerive

NextKeySourcing ==
  \/ \E email \in Emails : (CreateAccountCall(email) /\ StoredSeedOnly)
  \/ LoadAccountCall /\ StoredSeedOnly
  \/ AuthenticateForTransactionCall /\ StoredSeedOnly
  \/ \E call \in InFlight : (RegisterApprove(call) /\ StoredSeedOnly)
  \/ \E call \in InFlight : (RegisterCancel(call) /\ StoredSeedOnly)
  \/ \E call \in InFlight : (CreateAccountFinish(call) /\ StoredSeedOnly)
  \/ \E call \in InFlight : (AuthReadCredential(call) /\ StoredSeedOnly)
  \/ \E call \in InFlight : (AuthApprove(call) /\ StoredSeedOnly)
  \/ \E call \in InFlight : (AuthCancel(call) /\ StoredSeedOnly)
  \/ \E call \in InFlight : (LoadAccountFinish(call) /\ StoredSeedOnly)
  \/ \E call \in InFlight :
       (AuthenticateForTransactionFinish(call) /\ StoredSeedOnly)
  \/ \E adapter \in Adapters : (SetAdapter(adapter) /\ DerivedSignatureOnly)
  \/ ClearCache /\ DerivedSignatureOnly
  \/ NewSession /\ DerivedSignatureOnly
  \/ DeriveStaticKeysCall /\ DerivedSignatureOnly
  \/ GetUserKeyForSharingCall /\ DerivedSignatureOnly
  \/ \E call \in BagToSet(derives) : (SignResolve(call) /\ DerivedSignatureOnly)
  \/ \E call \in BagToSet(derives) : (SignReject(call) /\ DerivedSignatureOnly)
  \/ \E call \in BagToSet(derives) :
       (GetUserKeyFinish(call) /\ DerivedSignatureOnly)

SpecKeySourcing == InitKeySourcing /\ [][NextKeySourcing]_vars

\* ------------------------------------------------------------------------
\* Properties
\* ------------------------------------------------------------------------
HasStep(step) == \E i \in 1..Len(testResults) : testResults[i].step = step

HasEntry(step, details) ==
  \E i \in 1..Len(testResults) :
    testResults[i].step = step /\ testResults[i].details = details

\* the recipient steps ran to their end, or to the catch, with static keys
BobRan == bobPc = "idle" /\ HasStep("Step 9")

\* the User Key the wallet's own static keys publish
OwnUserKeyText == serializeUserKey(createUserKey(staticKeys))

\* the entry the catch of runBobReceivesResource adds for an OperationError
OperationErrorEntry ==
  Entry("Error", FALSE, "Bob decryption failed: OperationError")

\* the discovery ciphertext did not decrypt: Step 10 was reached, Step 11 not
DiscoveryFailed == BobRan /\ HasStep("Step 10") /\ ~HasStep("Step 11")

\* the resource ciphertext did not decrypt after the discovery one did
ResourceFailed == BobRan /\ HasStep("Step 12") /\ ~HasStep("Step 13")

\* C1: when the sender steps used the User Key of the wallet's own account
\* and the recipient steps ran with that account's static keys, the
\* discovery hint decrypts to the message sent and the recovered resource
\* bytes equal the bytes the sender encrypted.
C1_EndToEndTransfer ==
  (BobRan /\ sentTo = OwnUserKeyText) =>
     /\ HasEntry("Step 11", "matches")
     /\ HasEntry("Step 13", "dataMatches")
     /\ HasStep("Complete")
     /\ decryptedResource # NullRec
     /\ decryptedResource.value = testResource.value

C1_Witness ==
  /\ BobRan
  /\ sentTo = OwnUserKeyText
  /\ HasStep("Complete")
  /\ Len(testResource.value) = 4

\* C2: a wallet whose static keys come from another seed than the User Key
\* the payload was addressed to fails at the decryption of the discovery
\* ciphertext with an authentication failure (OperationError) and obtains
\* neither the discovery hint nor the resource.
C2_ThirdPartyFails ==
  (BobRan
     /\ deserializeUserKey(sentTo).val.sdpk # staticKeys.staticDiscovery.publicKey
     /\ deserializeUserKey(sentTo).val.sepk # staticKeys.staticEncryption.publicKey) =>
     /\ DiscoveryFailed
     /\ testResults[Len(testResults)] = OperationErrorEntry
     /\ decryptedResource = NullRec

C2_Witness ==
  /\ BobRan
  /\ deserializeUserKey(sentTo).val.sdpk # staticKeys.staticDiscovery.publicKey
  /\ deserializeUserKey(sentTo).val.sepk # staticKeys.staticEncryption.publicKey
  /\ DiscoveryFailed

\* C3: an authentication failure at the decryption of the discovery
\* ciphertext is skipped silently: no failed entry is reported to the user.
C3_DiscoveryFailureSilent ==
  DiscoveryFailed =>
    \A i \in 1..Len(testResults) :
      testResults[i].success /\ testResults[i].step # "Error"

\* C4: an authentication failure at the decryption of the resource
\* ciphertext, after the discovery ciphertext of the same payload decrypted,
\* is reported as an outcome of its own, distinct from the report of a
\* discovery-stage failure.
C4_IntegrityErrorDistinct ==
  ResourceFailed => testResults[Len(testResults)] # OperationErrorEntry

\* the ephemeral public keys of all transfers built so far, in order
EphemeralKeysUsed ==
  [i \in 1..(2 * Len(published)) |->
     IF i % 2 = 1 THEN published[(i + 1) \div 2].eepk
     ELSE published[i \div 2].edpk]

\* C14: every run of the sender steps uses a fresh ephemeral encryption key
\* pair and a fresh ephemeral discovery key pair: over all transfers built
\* so far no ephemeral public key occurs twice, neither as eepk nor as edpk.
C14_FreshEphemeralKeys ==
  \A i, j \in 1..Len(EphemeralKeysUsed) :
     i # j => EphemeralKeysUsed[i] # EphemeralKeysUsed[j]

C14_Witness ==
  /\ Len(published) >= 2
  /\ sentTo = bobUserKey
  /\ published[1].eepk # published[2].eepk
  /\ published[1].edpk # published[2].edpk
  /\ transaction.ephemeralEncryptionPublicKey = published[2].eepk

\* a StaticKeySet with all of its keys: three key pairs whose 32-byte private
\* keys are not all zero and whose public keys belong to them, and nk, cnk
CompleteKeyPair(pair) ==
  /\ Len(pair.privateKey) = 32
  /\ pair.privateKey # Pad(<<>>, 32)
  /\ pair.publicKey = getPublicKey(pair.privateKey)

CompleteStaticKeys(keys) ==
  /\ CompleteKeyPair(keys.identity)
  /\ CompleteKeyPair(keys.staticEncryption)
  /\ CompleteKeyPair(keys.staticDiscovery)
  /\ Len(keys.nullifier.nk) = 32
  /\ keys.nullifier.nk # Pad(<<>>, 32)
  /\ Len(keys.nullifier.cnk) = 32

\* the step in which a pending biometric or signature request is rejected
BiometricRejected ==
  \E call \in InFlight : RegisterCancel(call) \/ AuthCancel(call)

SignatureRejected == \E call \in BagToSet(derives) : SignReject(call)

BiometricRejectionKeepsKeys ==
  /\ staticKeys' = staticKeys
  /\ userKey' = userKey
  /\ lastResult'.outcome \in {"threw", "false"}

SignatureRejectionKeepsKeys ==
  /\ cachedKeys' = cachedKeys
  /\ cachedUserKey' = cachedUserKey
  /\ lastDerive'.outcome = "threw"
  /\ lastDerive'.keys = NullRec

\* C15: a rejected biometric or signature request ends createAccount,
\* loadAccount and deriveStaticKeys with an exception and
\* authenticateForTransaction with false, leaves the cached keys and User
\* Key as they were, and the caches only ever hold a complete StaticKeySet
\* with no all-zero key.
C15_CancelProducesNoKeys ==
  /\ [][BiometricRejected => BiometricRejectionKeepsKeys]_vars
  /\ [][SignatureRejected => SignatureRejectionKeepsKeys]_vars
  /\ [](staticKeys # NullRec => CompleteStaticKeys(staticKeys))
  /\ [](cachedKeys # NullRec => CompleteStaticKeys(cachedKeys))

C15_Witness ==
  /\ lastDerive.op = "deriveStaticKeys"
  /\ lastDerive.outcome = "threw"
  /\ currentAdapter \in Adapters
  /\ cachedKeys = NullRec
  /\ derivations[currentAdapter].keys # NullRec

\* C16: in the Stored-Seed wallet staticKeys is non-null only if a PassKey
\* registration or a seed retrieval succeeded since the service was created
\* or last logged out, and a page load, which restores from the localStorage
\* cache, leaves staticKeys null and sets userKey and userEmail to nothing
\* but the cached values.
C16_KeysOnlyAfterAuthentication ==
  /\ [](staticKeys # NullRec => vaultAuthenticated)
  /\ [][Reload =>
          /\ staticKeys' = NullRec
          /\ userKey' \in {NullRec, deserializeUserKey(localStorage.anoma_user_key).val}
          /\ userEmail' \in {"", localStorage.anoma_user_email}]_vars

C16_Witness ==
  /\ staticKeys # NullRec
  /\ vaultAuthenticated
  /\ lastResult = [op |-> "loadAccount", outcome |-> "returned"]

\* C17: the StaticKeySet held by either wallet service, built by
\* generateStaticKeys from the stored seed or by deriveStaticKeys from
\* signatures, has cnk = PRF(nk, "NULLIFIER_COMMITMENT").
C17_CommitmentIsPRFOfNk ==
  /\ staticKeys # NullRec =>
        staticKeys.nullifier.cnk =
          prf(staticKeys.nullifier.nk, DOMAIN_NULLIFIER_COMMITMENT)
  /\ cachedKeys # NullRec =>
        cachedKeys.nullifier.cnk =
          prf(cachedKeys.nullifier.nk, DOMAIN_NULLIFIER_COMMITMENT)

GenerateStaticKeysRejectsWrongLength ==
  (outProbe.op = "generateStaticKeys" /\ Len(outProbe.arg) # 32)
    => outProbe.out = Err("Master seed must be exactly 32 bytes")

C20_DecryptAllOrNothing ==
  outProbe.op = "decrypt" =>
    IF outProbe.arg.received = [key |-> outProbe.arg.sent.key,
                                envelope |-> outProbe.arg.sent.envelope]
    THEN outProbe.out = Ok(outProbe.arg.sent.plaintext)
    ELSE outProbe.out = Err("OperationError")

C20_Witness ==
  /\ outProbe.op = "decrypt"
  /\ outProbe.arg.received.key = outProbe.arg.sent.key
  /\ Len(outProbe.arg.received.envelope) = Len(outProbe.arg.sent.envelope)
  /\ outProbe.arg.received.envelope # outProbe.arg.sent.envelope
  /\ ~outProbe.out.ok
  /\ outProbe.out.val = NullRec

\* the step in which a derivation call receives its last signature
LastSignatureResolved(call) == Len(call.sigs) = 3 /\ SignResolve(call)

\* C21: a deriveStaticKeys call that misses the cache sends one signing
\* request per domain separator, in the order NULLIFIER, STATIC_ENCRYPTION,
\* STATIC_DISCOVERY, IDENTITY_VERIFICATION, the four messages pairwise
\* distinct, one request more than it has signatures while it waits and
\* exactly these four when it completes; a rejected request ends the call
\* with an exception and is not sent again.
C21_OneRequestPerSeparator ==
  /\ [](\A call \in BagToSet(derives) : call.pc = "signing" =>
          /\ Len(call.sent) = Len(call.sigs) + 1
          /\ call.sent = SubSeq(DerivationMessages, 1, Len(call.sent))
          /\ \A i, j \in 1..Len(call.sent) :
                i # j => call.sent[i] # call.sent[j])
  /\ [][\A call \in BagToSet(derives) :
          LastSignatureResolved(call) => call.sent = DerivationMessages]_vars
  /\ [][\A call \in BagToSet(derives) :
          SignReject(call) =>
            /\ derives' = derives (-) SetToBag({call})
            /\ lastDerive'.outcome = "threw"]_vars

C21_Witness ==
  /\ lastDerive.op = "deriveStaticKeys"
  /\ lastDerive.outcome = "returned"
  /\ lastDerive.fresh
  /\ cachedKeys # NullRec

\* every private key in play: the static private keys and nk of the
\* accounts, and every ephemeral private key the entropy source can give
SecretKeys ==
  UNION {{AccountKeys(w).identity.privateKey,
          AccountKeys(w).staticEncryption.privateKey,
          AccountKeys(w).staticDiscovery.privateKey,
          AccountKeys(w).nullifier.nk} : w \in 1..NumAccounts}
  \cup {randomBytes(32, r) : r \in 1..MaxRand}

\* C22: the transaction record the sender builds has the two ciphertexts,
\* the two ephemeral public keys, a timestamp and an id and nothing else,
\* and none of its byte fields is an ephemeral private key, a static
\* private key or nk.
C22_NoPrivateKeyPublished ==
  transaction # NullRec =>
    /\ DOMAIN transaction =
         {"encryptedResource", "ephemeralEncryptionPublicKey",
          "encryptedDiscovery", "ephemeralDiscoveryPublicKey",
          "timestamp", "transactionId"}
    /\ transaction.encryptedResource \notin SecretKeys
    /\ transaction.encryptedDiscovery \notin SecretKeys
    /\ transaction.ephemeralEncryptionPublicKey \notin SecretKeys
    /\ transaction.ephemeralDiscoveryPublicKey \notin SecretKeys
    /\ \E eesk, edsk \in SecretKeys :
         /\ transaction.ephemeralEncryptionPublicKey = getPublicKey(eesk)
         /\ transaction.ephemeralDiscoveryPublicKey = getPublicKey(edsk)
    /\ transaction.timestamp \in Nat
    /\ transaction.transactionId \in Nat

C22_Witness ==
  /\ transaction # NullRec
  /\ sentTo # <<>>
  /\ HasStep("Transaction Created")

\* t occurs in s as a run of consecutive bytes
Contains(s, t) ==
  \E i \in 0..(Len(s) - Len(t)) : SubSeq(s, i + 1, i + Len(t)) = t

\* the resource the recipient holds after step 13 has the recipient's cnk
DecryptedCnkIsRecipients ==
  (decryptedResource # NullRec /\ staticKeys # NullRec) =>
     decryptedResource.cnk = staticKeys.nullifier.cnk

\* C23: the resource is bound to the recipient before it is encrypted: its
\* cnk is the cnk of the recipient's User Key, and the plaintext the
\* recipient obtains from ce is the serialization of the whole resource, so
\* it carries that cnk.
C23_CiphertextCarriesCnk ==
  decryptedResource # NullRec =>
    /\ testResource.cnk = deserializeUserKey(sentTo).val.cnk
    /\ decryptedResource.cnk = testResource.cnk
    /\ Contains(decryptedResource.value, testResource.cnk)

\* a step of setAdapter, of clearCache, or of a connect whose adapter connected
CacheResetStep ==
  \/ \E adapter \in Adapters : SetAdapter(adapter)
  \/ ClearCache
  \/ \E call \in BagToSet(derives) : ConnectResolve(call)

CachesEmptied ==
  /\ cachedKeys' = NullRec
  /\ cachedUserKey' = NullRec
  /\ cachedAddress' = ""

CacheHit ==
  /\ DeriveStaticKeysCall
  /\ currentAdapter # ""
  /\ cachedKeys # NullRec

CacheHitAnswer ==
  /\ lastDerive'.outcome = "returned"
  /\ lastDerive'.keys = cachedKeys
  /\ derives' = derives
  /\ cachedKeys' = cachedKeys

\* a connect call settles, by returning or by throwing
ConnectSettled ==
  \E call \in BagToSet(derives) :
    call.pc = "connecting" /\ derives' = derives (-) SetToBag({call})

C5_CacheNotMixed ==
  (calls = EmptyBag /\ staticKeys # NullRec) =>
     /\ userKey # NullRec
     /\ userKey.idpk = staticKeys.identity.publicKey
     /\ userKey.cnk = staticKeys.nullifier.cnk

C9_RoundTrip ==
  outParsed # NullRec => (outParsed.ok /\ outParsed.val = outUserKey)

C9_Witness ==
  /\ outParsed # NullRec
  /\ outParsed.ok
  /\ fromKeys
  /\ Len(outParsed.val.signature) = 64

C11_TamperDetected ==
  outProbe.op = "importTampered" =>
     /\ outProbe.out.parsed.ok
     /\ outProbe.out.parsed.val.signature # outUserKey.signature
     /\ [outProbe.out.parsed.val EXCEPT !.signature = outUserKey.signature]
          = outUserKey
     /\ ~outProbe.out.verified
     /\ ~outProbe.out.imported

C11_Witness ==
  /\ outProbe.op = "importTampered"
  /\ outProbe.arg = 511
  /\ outVerified = "true"
  /\ outProbe.out.parsed.ok
  /\ ~outProbe.out.verified

\* C12: deserializeUserKey fails, returning no User Key, for every input
\* that is truncated or whose length prefixes declare more bytes than the
\* buffer holds.
C12_MalformedEncodingFails ==
  outProbe.op = "deserializeMalformed" => ~outProbe.out.ok

\* C13: verifyUserKey returns false, and does not throw, for a User Key
\* with fields of the wrong length, an identity key that is not a curve
\* point, or a signature that is garbage.
C13_VerifyNeverThrows ==
  /\ outProbe.op = "verifyMalformed" => outProbe.out = FALSE
  /\ (~fromKeys /\ outVerified # "unset") => outVerified = "false"

C13_Witness ==
  /\ outProbe.op = "verifyMalformed"
  /\ Len(outProbe.arg.signature) = 64
  /\ ~IsOnCurve(outProbe.arg.idpk)
  /\ outProbe.out = FALSE

\* C25: importUserKey returns a User Key only if the text parses and the
\* signature of the parsed key verifies against its idpk over cnk, sdpk and
\* sepk, and then it returns that parsed key; for every text that fails to
\* parse or to verify it throws and returns no User Key; and the call leaves
\* staticKeys, userKey, userEmail and the stored entries of the wallet as
\* they were.
ImportStep == outProbe.op = "none" /\ outProbe'.op = "importUserKey"

ImportKeepsWallet ==
  UNCHANGED <<staticKeys, userKey, userEmail, localStorage, vaultCreds,
              calls>>

C25_ImportOnlyVerified ==
  /\ [](outProbe.op = "importUserKey" =>
         LET parsed == deserializeUserKey(outProbe.arg)
             out == outProbe.out
         IN /\ out.ok => /\ parsed.ok
                          /\ out.val = parsed.val
                          /\ LET r == verify(out.val.signature,
                                            sha256(out.val.cnk \o out.val.sdpk
                                                     \o out.val.sepk),
                                            out.val.idpk)
                             IN ~r.threw /\ r.valid
            /\ (~parsed.ok \/ ~verifyUserKey(parsed.val)) =>
                 (~out.ok /\ out.val = NullRec /\ out.err # ""))
  /\ [][ImportStep => ImportKeepsWallet]_vars

C25_Witness ==
  /\ outProbe.op = "importUserKey"
  /\ ~outProbe.out.ok
  /\ deserializeUserKey(outProbe.arg).ok
  /\ staticKeys # NullRec
  /\ userKey # NullRec

C25_WitnessAccepted ==
  /\ outProbe.op = "importUserKey"
  /\ outProbe.out.ok
  /\ staticKeys # NullRec
  /\ outProbe.out.val # userKey

\* C26: logout() clears staticKeys, userKey, userEmail and the cached
\* anoma_user_key and anoma_user_email entries and leaves the stored
\* credential id and every stored master seed as they were; deleteAccount()
\* clears the same and removes the credential id and the seeds; no other
\* step removes or changes a stored credential id or a stored seed.
SessionCleared ==
  /\ staticKeys' = NullRec
  /\ userKey' = NullRec
  /\ userEmail' = ""
  /\ localStorage'.anoma_user_key = <<>>
  /\ localStorage'.anoma_user_email = ""

CredentialsKept ==
  /\ localStorage'.anoma_current_credential
       = localStorage.anoma_current_credential
  /\ localStorage'.anoma_seed = localStorage.anoma_seed

CredentialsRemoved ==
  /\ localStorage'.anoma_current_credential = 0
  /\ \A c \in CredIds : localStorage'.anoma_seed[c] = <<>>

CredentialLost ==
  \/ /\ localStorage.anoma_current_credential # 0
     /\ localStorage'.anoma_current_credential = 0
  \/ \E c \in CredIds :
       /\ localStorage.anoma_seed[c] # <<>>
       /\ localStorage'.anoma_seed[c] # localStorage.anoma_seed[c]

C26_LogoutKeepsCredentials ==
  /\ [][Logout => (SessionCleared /\ CredentialsKept)]_vars
  /\ [][DeleteAccount => (SessionCleared /\ CredentialsRemoved)]_vars
  /\ [][CredentialLost => DeleteAccount]_vars

C26_Witness ==
  /\ staticKeys = NullRec
  /\ userKey = NullRec
  /\ calls = EmptyBag
  /\ lastResult = NoResult
  /\ localStorage.anoma_user_key = <<>>
  /\ localStorage.anoma_current_credential # 0
  /\ localStorage.anoma_seed[localStorage.anoma_current_credential] # <<>>

\* C27: whenever cachedKeys of the DerivationWalletService is non-null, all
\* four signatures it was derived from were produced by the adapter that is
\* currentAdapter in that state, also when setAdapter or clearCache was
\* called while the deriveStaticKeys call was suspended awaiting a signature.
C27_CacheIsCurrentAdapters ==
  cachedKeys # NullRec => cachedBy = currentAdapter

\* C28: after a successful createAccount(email) followed by logout(), a
\* loadAccount() whose PassKey authentication succeeds completes and
\* restores the account; in particular, in the state logout() leaves,
\* loadAccount() passes its checks of the stored credential and of the
\* cached user data and reaches the authentication.
CreatedThenLoggedOut ==
  /\ lastResult = [op |-> "createAccount", outcome |-> "returned"]
  /\ staticKeys # NullRec
  /\ Logout

LoadAccountAdmitted ==
  /\ hasStoredCredentials
  /\ localStorage.anoma_user_key # <<>>
  /\ localStorage.anoma_user_email # ""

C28_LoadAfterLogout ==
  [][CreatedThenLoggedOut => LoadAccountAdmitted']_vars

\* C29: a loadAccount() call that throws, for whatever reason, leaves
\* staticKeys, userKey and userEmail as they were: the step in which the
\* call settles by throwing changes none of the three.
LoadAccountThrew ==
  /\ lastResult' = [op |-> "loadAccount", outcome |-> "threw"]
  /\ \/ UNCHANGED calls
     \/ \E call \in InFlight :
          /\ call.op = "loadAccount"
          /\ calls' = calls (-) SetToBag({call})

SessionKept == UNCHANGED <<staticKeys, userKey, userEmail>>

C29_ThrowKeepsSession ==
  [][LoadAccountThrew => SessionKept]_vars

\* the throws of loadAccount that come before its assignments keep the three
\* fields: no credential, no cached user data, authentication failed
ThrewBeforeAssigning ==
  /\ LoadAccountThrew
  /\ ~\E call \in InFlight : call.pc = "auth2" /\ LoadAccountFinish(call)

EarlyThrowKeepsSession ==
  [][ThrewBeforeAssigning => SessionKept]_vars

\* C30: when logout() or deleteAccount() completed while a loadAccount() or
\* authenticateForTransaction() call was suspended awaiting the vault, the
\* wallet is still logged out after that call resumes: the step in which
\* such a call continues on a logged-out wallet leaves staticKeys and
\* userKey null.  (authenticateForTransaction starts only with staticKeys
\* set, and loadAccount only with the cached User Key stored, and only
\* logout and deleteAccount clear them while calls stay in flight.)
ResumesAfterLogout ==
  /\ staticKeys = NullRec
  /\ userKey = NullRec
  /\ \E call \in InFlight :
       \/ /\ call.op = "authenticateForTransaction"
          /\ AuthenticateForTransactionFinish(call)
       \/ /\ call.op = "loadAccount"
          /\ call.cachedUserKey # <<>>
          /\ localStorage.anoma_user_key = <<>>
          /\ LoadAccountFinish(call)

C30_StaysLoggedOut ==
  [][ResumesAfterLogout => (staticKeys' = NullRec /\ userKey' = NullRec)]_vars
====
